---- MODULE Spec2Model ----
(***************************************************************************)
(* Intcode virtual machine of intcode/src/lib.rs: the instruction decoder, *)
(* the operand resolver with memory growth, and the fetch-decode-execute   *)
(* loop of Program::run, driven by arbitrary channel peers.                *)
(*                                                                         *)
(* Rust vectors are indexed from 0, TLA+ sequences from 1: the cell at     *)
(* address a of a memory m is m[a + 1], written Cell(m, a).                *)
(* Cell values stay far below 2^63 within the bounds of the model, so the  *)
(* i64 arithmetic of the source never overflows here.                      *)
(***************************************************************************)
EXTENDS Integers, Sequences, FiniteSets, TLC

VARIABLES
    program,      \* the vector handed to Program::new (never changes)
    opcodes,      \* Program.opcodes, the memory
    index,        \* the local `index` of run, the program counter
    base,         \* Program.base, the relative base
    status,       \* "Created", "Running", "Ok", "Err", "Panic"
    error,        \* the Error variant run returned, "None" otherwise
    received,     \* values obtained by inputs.recv(), in order
    sent,         \* values delivered by outputs.send(), in order
    last,         \* the instruction executed by the latest step
    steps,        \* number of loop iterations begun
    topology,     \* the function that built the channels and the threads
    host,         \* the thread that called that function
    chans,        \* the values pending in each channel
    amps          \* the threads running process_opcode of src/2019-12-07

vars == <<program, opcodes, index, base, status, error, received, sent,
          last, steps, topology, host, chans, amps>>

\* what lies outside the Program of src/intcode
outside == <<topology, host, chans, amps>>

----------------------------------------------------------------------------
(* Bounds of the model *)

MaxSteps == 6
MaxExampleSteps == 82
MaxArg == 3
MaxInput == 1
MaxBlocks == 3
MaxRounds == 2
MaxAmpSteps == 40
MaxSettings == 4
MaxInstructions == 3
MaxValue == 1

----------------------------------------------------------------------------
(* Decimal strings, as sequences of one-character strings *)

DigitChar(d) == <<"0", "1", "2", "3", "4", "5", "6", "7", "8", "9">>[d + 1]

DigitValue(c) ==
    CASE c = "0" -> 0 [] c = "1" -> 1 [] c = "2" -> 2 [] c = "3" -> 3
      [] c = "4" -> 4 [] c = "5" -> 5 [] c = "6" -> 6 [] c = "7" -> 7
      [] c = "8" -> 8 [] c = "9" -> 9 [] OTHER -> -1

RECURSIVE Digits(_)
Digits(n) ==
    IF n < 10 THEN <<DigitChar(n)>>
    ELSE Digits(n \div 10) \o <<DigitChar(n % 10)>>

\* i64::to_string
to_string(v) == IF v < 0 THEN <<"-">> \o Digits(-v) ELSE Digits(v)

\* str::get(from..to): None when the range leaves the string
None == <<"None">>
StrGet(s, from, to) ==
    IF from <= to /\ to <= Len(s) THEN SubSeq(s, from + 1, to) ELSE None

\* Reverse that leaves the mode digits in reading order
ReverseNot(s) == s

\* chars().rev() collected into a String
Reverse(s) == [i \in 1..Len(s) |-> s[Len(s) + 1 - i]]

\* str::parse::<usize>: -1 stands for Err(ParseIntError)
RECURSIVE ParseDigits(_, _)
ParseDigits(s, acc) ==
    IF s = <<>> THEN acc
    ELSE IF DigitValue(Head(s)) < 0 THEN -1
    ELSE ParseDigits(Tail(s), 10 * acc + DigitValue(Head(s)))

ParseUsize(s) == IF s = <<>> THEN -1 ELSE ParseDigits(s, 0)

----------------------------------------------------------------------------
(* Instruction decoder *)

\* Mode::try_from with an unknown digit read as Position
ModeTryFromDefault(code) ==
    CASE code = <<"0">> -> "Position"
      [] code = <<"1">> -> "Immediate"
      [] code = <<"2">> -> "Relative"
      [] OTHER -> "Position"

\* impl TryFrom<&str> for Mode; "InvalidMode" stands for the Err
ModeTryFrom(code) ==
    CASE code = <<"0">> -> "Position"
      [] code = <<"1">> -> "Immediate"
      [] code = <<"2">> -> "Relative"
      [] OTHER -> "InvalidMode"

\* Mode::try_from(intcode.get(i..i+1).unwrap_or("0"))
ModeAt(intcode, i) ==
    LET g == StrGet(intcode, i, i + 1)
    IN ModeTryFrom(IF g = None THEN <<"0">> ELSE g)

\* Arm with an unknown code falling through to a default instruction
ArmDefault(code) ==
    CASE code = 1 -> [op |-> "Add", n |-> 3]
      [] code = 2 -> [op |-> "Multiply", n |-> 3]
      [] code = 3 -> [op |-> "Input", n |-> 1]
      [] code = 4 -> [op |-> "Output", n |-> 1]
      [] code = 5 -> [op |-> "JumpIf", n |-> 2]
      [] code = 6 -> [op |-> "JumpIfNot", n |-> 2]
      [] code = 7 -> [op |-> "LessThan", n |-> 3]
      [] code = 8 -> [op |-> "Equals", n |-> 3]
      [] code = 9 -> [op |-> "ModifyBase", n |-> 1]
      [] OTHER -> [op |-> "Halt", n |-> 0]

\* the arm of `match instruction_code`: the instruction and the number of
\* mode digits it reads; n = -1 is the arm `code => Err(InvalidInstruction)`
Arm(code) ==
    CASE code = 1 -> [op |-> "Add", n |-> 3]
      [] code = 2 -> [op |-> "Multiply", n |-> 3]
      [] code = 3 -> [op |-> "Input", n |-> 1]
      [] code = 4 -> [op |-> "Output", n |-> 1]
      [] code = 5 -> [op |-> "JumpIf", n |-> 2]
      [] code = 6 -> [op |-> "JumpIfNot", n |-> 2]
      [] code = 7 -> [op |-> "LessThan", n |-> 3]
      [] code = 8 -> [op |-> "Equals", n |-> 3]
      [] code = 9 -> [op |-> "ModifyBase", n |-> 1]
      [] code = 99 -> [op |-> "Halt", n |-> 0]
      [] OTHER -> [op |-> "Invalid", n |-> -1]

\* InstructionTryFrom that rejects a cell when any digit to the left of the
\* instruction code is no mode
InstructionTryFromAllDigits(intcode) ==
    LET str == to_string(intcode)
        length == Len(str)
        low == IF length < 2 THEN length ELSE 2
        instruction_str == StrGet(str, length - low, length)
        rest == Reverse(SubSeq(str, 1, length - Len(instruction_str)))
        instruction_code == ParseUsize(instruction_str)
        arm == Arm(instruction_code)
        modes == [i \in 1..arm.n |-> ModeAt(rest, i - 1)]
    IN  IF instruction_code < 0 \/ arm.n < 0
        THEN [ok |-> FALSE, op |-> "Invalid", modes |-> <<>>,
              error |-> "InvalidInstruction"]
        ELSE IF \E i \in 1..Len(rest) : ModeAt(rest, i - 1) = "InvalidMode"
        THEN [ok |-> FALSE, op |-> "Invalid", modes |-> <<>>,
              error |-> "InvalidMode"]
        ELSE [ok |-> TRUE, op |-> arm.op, modes |-> modes, error |-> "None"]

\* impl TryFrom<i64> for Instruction
InstructionTryFrom(intcode) ==
    LET str == to_string(intcode)
        length == Len(str)
        low == IF length < 2 THEN length ELSE 2
        instruction_str == StrGet(str, length - low, length)
        rest == Reverse(SubSeq(str, 1, length - Len(instruction_str)))
        instruction_code == ParseUsize(instruction_str)
        arm == Arm(instruction_code)
        modes == [i \in 1..arm.n |-> ModeAt(rest, i - 1)]
    IN  IF instruction_code < 0 \/ arm.n < 0
        THEN [ok |-> FALSE, op |-> "Invalid", modes |-> <<>>,
              error |-> "InvalidInstruction"]
        ELSE IF \E i \in 1..arm.n : modes[i] = "InvalidMode"
        THEN [ok |-> FALSE, op |-> "Invalid", modes |-> <<>>,
              error |-> "InvalidMode"]
        ELSE [ok |-> TRUE, op |-> arm.op, modes |-> modes, error |-> "None"]

----------------------------------------------------------------------------
(* Memory and operand resolver *)

Cell(m, a) == m[a + 1]

\* Grow whose loop starts at 0 instead of the current length
GrowFromZero(m, offset) ==
    IF offset >= Len(m)
    THEN m \o [i \in 1..(offset + 1) |-> 0]
    ELSE m

\* the push loop of offset_from_mode
Grow(m, offset) ==
    IF offset >= Len(m)
    THEN m \o [i \in 1..(offset + 1 - Len(m)) |-> 0]
    ELSE m

\* OffsetTryFrom that drops the sign instead of failing
OffsetTryFromUnsigned(value) ==
    [ok |-> TRUE, offset |-> IF value < 0 THEN -value ELSE value]

\* impl TryFrom<i64> for Offset: usize::try_from fails on negative values
OffsetTryFrom(value) ==
    IF value < 0 THEN [ok |-> FALSE, offset |-> 0]
    ELSE [ok |-> TRUE, offset |-> value]

\* offset_from_mode that forgets the relative base
offset_from_mode_nobase(m, b, i, mode) ==
    IF mode = "Immediate"
    THEN [res |-> "Ok", offset |-> i, opcodes |-> Grow(m, i)]
    ELSE IF i >= Len(m)
    THEN [res |-> "Panic", offset |-> 0, opcodes |-> m]
    ELSE LET o == OffsetTryFrom(Cell(m, i))
         IN  IF o.ok
             THEN [res |-> "Ok", offset |-> o.offset,
                   opcodes |-> Grow(m, o.offset)]
             ELSE [res |-> "InvalidIntOffset", offset |-> 0, opcodes |-> m]

\* Program::offset_from_mode; res "Panic" is the index-out-of-bounds panic
\* of self.opcodes[index]
offset_from_mode(m, b, i, mode) ==
    IF mode = "Immediate"
    THEN [res |-> "Ok", offset |-> i, opcodes |-> Grow(m, i)]
    ELSE IF i >= Len(m)
    THEN [res |-> "Panic", offset |-> 0, opcodes |-> m]
    ELSE LET o == OffsetTryFrom(IF mode = "Relative" THEN Cell(m, i) + b
                                ELSE Cell(m, i))
         IN  IF o.ok
             THEN [res |-> "Ok", offset |-> o.offset,
                   opcodes |-> Grow(m, o.offset)]
             ELSE [res |-> "InvalidIntOffset", offset |-> 0, opcodes |-> m]

\* the parameters of one instruction, resolved one after the other, each
\* followed by index += 1; the first failure ends the sequence
RECURSIVE Operands(_, _, _, _)
Operands(m, b, i, modes) ==
    IF modes = <<>>
    THEN [res |-> "Ok", opcodes |-> m, index |-> i, offs |-> <<>>]
    ELSE LET r == offset_from_mode(m, b, i, Head(modes))
         IN  IF r.res # "Ok"
             THEN [res |-> r.res, opcodes |-> r.opcodes, index |-> i,
                   offs |-> <<>>]
             ELSE LET t == Operands(r.opcodes, b, i + 1, Tail(modes))
                  IN  [t EXCEPT !.offs = <<r.offset>> \o @]

----------------------------------------------------------------------------
(* Instruction handlers of Program::run.  Each takes the memory m, the     *)
(* relative base b, the index i just past the opcode cell and the decoded  *)
(* modes, and gives the outcome res ("Ok": the loop continues, "Panic",    *)
(* or the Error variant returned), the memory, index and base it leaves,   *)
(* and the offsets it resolved.                                            *)

Outcome(res, m, i, b, offs) ==
    [res |-> res, opcodes |-> m, index |-> i, base |-> b, offs |-> offs]

\* Add with the operator of Multiply
AddAsMultiply(m, b, i, modes) ==
    LET r == Operands(m, b, i, modes)
    IN  IF r.res # "Ok" THEN Outcome(r.res, r.opcodes, r.index, b, r.offs)
        ELSE Outcome("Ok",
                     [r.opcodes EXCEPT ![r.offs[3] + 1] =
                         Cell(r.opcodes, r.offs[1]) * Cell(r.opcodes, r.offs[2])],
                     r.index, b, r.offs)

Add(m, b, i, modes) ==
    LET r == Operands(m, b, i, modes)
    IN  IF r.res # "Ok" THEN Outcome(r.res, r.opcodes, r.index, b, r.offs)
        ELSE Outcome("Ok",
                     [r.opcodes EXCEPT ![r.offs[3] + 1] =
                         Cell(r.opcodes, r.offs[1]) + Cell(r.opcodes, r.offs[2])],
                     r.index, b, r.offs)

\* Multiply that stores the product over its first operand
MultiplyInPlace(m, b, i, modes) ==
    LET r == Operands(m, b, i, modes)
    IN  IF r.res # "Ok" THEN Outcome(r.res, r.opcodes, r.index, b, r.offs)
        ELSE Outcome("Ok",
                     [r.opcodes EXCEPT ![r.offs[1] + 1] =
                         Cell(r.opcodes, r.offs[1]) * Cell(r.opcodes, r.offs[2])],
                     r.index, b, r.offs)

Multiply(m, b, i, modes) ==
    LET r == Operands(m, b, i, modes)
    IN  IF r.res # "Ok" THEN Outcome(r.res, r.opcodes, r.index, b, r.offs)
        ELSE Outcome("Ok",
                     [r.opcodes EXCEPT ![r.offs[3] + 1] =
                         Cell(r.opcodes, r.offs[1]) * Cell(r.opcodes, r.offs[2])],
                     r.index, b, r.offs)

\* Input that clears the destination when the channel is disconnected
InputClearsOnError(m, b, i, modes, input) ==
    LET r == Operands(m, b, i, modes)
    IN  IF r.res # "Ok" THEN Outcome(r.res, r.opcodes, r.index, b, r.offs)
        ELSE IF ~input.ok
        THEN Outcome("MissingInput", [r.opcodes EXCEPT ![r.offs[1] + 1] = 0],
                     r.index, b, r.offs)
        ELSE Outcome("Ok", [r.opcodes EXCEPT ![r.offs[1] + 1] = input.value],
                     r.index, b, r.offs)

\* input is the result of inputs.recv(): a value, or the RecvError of a
\* disconnected channel
Input(m, b, i, modes, input) ==
    LET r == Operands(m, b, i, modes)
    IN  IF r.res # "Ok" THEN Outcome(r.res, r.opcodes, r.index, b, r.offs)
        ELSE IF ~input.ok
        THEN Outcome("MissingInput", r.opcodes, r.index, b, r.offs)
        ELSE Outcome("Ok", [r.opcodes EXCEPT ![r.offs[1] + 1] = input.value],
                     r.index, b, r.offs)

\* Output that consumes the cell it sends
OutputConsumes(m, b, i, modes, accepted) ==
    LET r == Operands(m, b, i, modes)
    IN  IF r.res # "Ok" THEN Outcome(r.res, r.opcodes, r.index, b, r.offs)
        ELSE IF ~accepted
        THEN Outcome("MissingOutput", r.opcodes, r.index, b, r.offs)
        ELSE Outcome("Ok", [r.opcodes EXCEPT ![r.offs[1] + 1] = 0],
                     r.index, b, r.offs)

\* accepted: outputs.send() met a receiver; otherwise the receiver is gone
Output(m, b, i, modes, accepted) ==
    LET r == Operands(m, b, i, modes)
    IN  IF r.res # "Ok" THEN Outcome(r.res, r.opcodes, r.index, b, r.offs)
        ELSE IF ~accepted
        THEN Outcome("MissingOutput", r.opcodes, r.index, b, r.offs)
        ELSE Outcome("Ok", r.opcodes, r.index, b, r.offs)

\* Jump that assigns the target value to index without the conversion
JumpUnchecked(c, b, i, modes) ==
    LET p == offset_from_mode(c.opcodes, b, i + 1, modes[2])
    IN  IF p.res # "Ok"
        THEN Outcome(p.res, p.opcodes, i + 1, b, <<c.offset>>)
        ELSE Outcome("Ok", p.opcodes, Cell(p.opcodes, p.offset), b,
                     <<c.offset, p.offset>>)

\* the pointer part of a taken jump, after the condition was resolved to c
Jump(c, b, i, modes) ==
    LET p == offset_from_mode(c.opcodes, b, i + 1, modes[2])
    IN  IF p.res # "Ok"
        THEN Outcome(p.res, p.opcodes, i + 1, b, <<c.offset>>)
        ELSE LET target == OffsetTryFrom(Cell(p.opcodes, p.offset))
             IN  IF target.ok
                 THEN Outcome("Ok", p.opcodes, target.offset, b,
                              <<c.offset, p.offset>>)
                 ELSE Outcome("InvalidIntOffset", p.opcodes, i + 1, b,
                              <<c.offset, p.offset>>)

\* JumpIf that resolves its target parameter before it tests the condition
JumpIfResolvesTarget(m, b, i, modes) ==
    LET c == offset_from_mode(m, b, i, modes[1])
    IN  IF c.res # "Ok" THEN Outcome(c.res, c.opcodes, i, b, <<>>)
        ELSE IF Cell(c.opcodes, c.offset) # 0 THEN Jump(c, b, i, modes)
        ELSE LET p == offset_from_mode(c.opcodes, b, i + 1, modes[2])
             IN  IF p.res # "Ok"
                 THEN Outcome(p.res, p.opcodes, i + 1, b, <<c.offset>>)
                 ELSE Outcome("Ok", p.opcodes, i + 2, b, <<c.offset>>)

\* JumpIf that does not step over the pointer slot when it does not jump
JumpIfNoSkip(m, b, i, modes) ==
    LET c == offset_from_mode(m, b, i, modes[1])
    IN  IF c.res # "Ok" THEN Outcome(c.res, c.opcodes, i, b, <<>>)
        ELSE IF Cell(c.opcodes, c.offset) # 0 THEN Jump(c, b, i, modes)
        ELSE Outcome("Ok", c.opcodes, i + 1, b, <<c.offset>>)

JumpIf(m, b, i, modes) ==
    LET c == offset_from_mode(m, b, i, modes[1])
    IN  IF c.res # "Ok" THEN Outcome(c.res, c.opcodes, i, b, <<>>)
        ELSE IF Cell(c.opcodes, c.offset) # 0 THEN Jump(c, b, i, modes)
        ELSE Outcome("Ok", c.opcodes, i + 2, b, <<c.offset>>)

\* JumpIfNot with the test of JumpIf
JumpIfNotAsJumpIf(m, b, i, modes) ==
    LET c == offset_from_mode(m, b, i, modes[1])
    IN  IF c.res # "Ok" THEN Outcome(c.res, c.opcodes, i, b, <<>>)
        ELSE IF Cell(c.opcodes, c.offset) # 0 THEN Jump(c, b, i, modes)
        ELSE Outcome("Ok", c.opcodes, i + 2, b, <<c.offset>>)

JumpIfNot(m, b, i, modes) ==
    LET c == offset_from_mode(m, b, i, modes[1])
    IN  IF c.res # "Ok" THEN Outcome(c.res, c.opcodes, i, b, <<>>)
        ELSE IF Cell(c.opcodes, c.offset) = 0 THEN Jump(c, b, i, modes)
        ELSE Outcome("Ok", c.opcodes, i + 2, b, <<c.offset>>)

\* LessThan that also holds of equal operands
LessThanOrEqual(m, b, i, modes) ==
    LET r == Operands(m, b, i, modes)
    IN  IF r.res # "Ok" THEN Outcome(r.res, r.opcodes, r.index, b, r.offs)
        ELSE Outcome("Ok",
                     [r.opcodes EXCEPT ![r.offs[3] + 1] =
                         IF Cell(r.opcodes, r.offs[1]) <= Cell(r.opcodes, r.offs[2])
                         THEN 1 ELSE 0],
                     r.index, b, r.offs)

LessThan(m, b, i, modes) ==
    LET r == Operands(m, b, i, modes)
    IN  IF r.res # "Ok" THEN Outcome(r.res, r.opcodes, r.index, b, r.offs)
        ELSE Outcome("Ok",
                     [r.opcodes EXCEPT ![r.offs[3] + 1] =
                         IF Cell(r.opcodes, r.offs[1]) < Cell(r.opcodes, r.offs[2])
                         THEN 1 ELSE 0],
                     r.index, b, r.offs)

Equals(m, b, i, modes) ==
    LET r == Operands(m, b, i, modes)
    IN  IF r.res # "Ok" THEN Outcome(r.res, r.opcodes, r.index, b, r.offs)
        ELSE Outcome("Ok",
                     [r.opcodes EXCEPT ![r.offs[3] + 1] =
                         IF Cell(r.opcodes, r.offs[1]) = Cell(r.opcodes, r.offs[2])
                         THEN 1 ELSE 0],
                     r.index, b, r.offs)

\* ModifyBase that replaces the base instead of adding to it
ModifyBaseSet(m, b, i, modes) ==
    LET r == Operands(m, b, i, modes)
    IN  IF r.res # "Ok" THEN Outcome(r.res, r.opcodes, r.index, b, r.offs)
        ELSE LET new_base == OffsetTryFrom(Cell(r.opcodes, r.offs[1]))
             IN  IF new_base.ok
                 THEN Outcome("Ok", r.opcodes, r.index, new_base.offset, r.offs)
                 ELSE Outcome("InvalidIntOffset", r.opcodes, r.index, b, r.offs)

ModifyBase(m, b, i, modes) ==
    LET r == Operands(m, b, i, modes)
    IN  IF r.res # "Ok" THEN Outcome(r.res, r.opcodes, r.index, b, r.offs)
        ELSE LET new_base == OffsetTryFrom(Cell(r.opcodes, r.offs[1]) + b)
             IN  IF new_base.ok
                 THEN Outcome("Ok", r.opcodes, r.index, new_base.offset, r.offs)
                 ELSE Outcome("InvalidIntOffset", r.opcodes, r.index, b, r.offs)

----------------------------------------------------------------------------
(* Programs the machine is started on *)

\* programs of the repository's tests
Day2Example == <<1, 9, 10, 3, 2, 3, 11, 0, 99, 30, 40, 50>>
Day5Example == <<103, 0, 1101, 9, 10, 3, 1008, 3, 3, 3, 4, 3, 99>>
Day5Outputs == <<103, 0, 104, 7, 104, 42, 99>>
Day9Large == <<109, 2000, 109, 19, 204, -34, 99>>
Day9Grow == <<109, 42, 1001, 1, 0, 42, 204, 0, 99>>
Day9Quine ==
    <<109, 1, 204, -1, 1001, 100, 1, 100, 1008, 100, 16, 101, 1006, 101, 0,
      99>>

\* a program that executes every instruction once
AllInstructions ==
    <<103, 0, 1102, 2, 3, 0, 1105, 0, 0, 1106, 1, 0, 1107, 0, 1, 0, 109, 1,
      1101, 1, 1, 0, 1108, 1, 1, 0, 204, 0>>

Examples ==
    {Day2Example, Day5Example, Day5Outputs, Day9Large, Day9Grow, Day9Quine,
     AllInstructions}

InstructionCodes == (1..9) \cup {99, 0, 10, 98}

\* instruction cells: every code with every combination of the three mode
\* digits 0, 1, 2; cells with a mode digit that is no mode; negative cells
OpCells ==
    {c + 100 * m1 + 1000 * m2 + 10000 * m3 :
        c \in InstructionCodes, m1 \in 0..2, m2 \in 0..2, m3 \in 0..2}
    \cup {301, 3002, 30007, 403, 904, 3105, 4006, 30008, 509}
    \cup {-99, -103, -5}

ArgVals == -1..MaxArg

Args == UNION {[1..n -> ArgVals] : n \in 0..3}

Prefixes == {<<>>, <<109, 1>>}

Generated == {pre \o <<c>> \o a : pre \in Prefixes, c \in OpCells, a \in Args}

Programs == Examples \cup Generated \cup {<<>>}

InputEvents ==
    {[ok |-> TRUE, value |-> v] : v \in 0..MaxInput}
    \cup {[ok |-> FALSE, value |-> 0]}

\* the program of the test of src/2019/11_space-police
RobotExample ==
    <<103, 0, 104, 1, 104, 0, 103, 0, 104, 0, 104, 0, 103, 0, 104, 1, 104, 0,
      103, 0, 104, 1, 104, 0, 103, 1, 104, 0, 104, 1, 103, 0, 104, 1, 104, 0,
      103, 0, 104, 1, 104, 0, 99>>

StepBound ==
    IF program \in Examples \cup {RobotExample} THEN MaxExampleSteps
    ELSE MaxSteps

----------------------------------------------------------------------------
(* State machine of Program::new and Program::run *)

\* a Program run on its own, its peers left abstract
Alone ==
    /\ topology = "none"
    /\ host = [pc |-> "none"]
    /\ chans = <<>>
    /\ amps = <<>>

NoInstruction ==
    [op |-> "None", at |-> 0, modes |-> <<>>, pre |-> <<>>, base0 |-> 0,
     offs |-> <<>>]

Init ==
    /\ program \in Programs
    /\ opcodes = program
    /\ index = 0
    /\ base = 0
    /\ status = "Created"
    /\ error = "None"
    /\ received = <<>>
    /\ sent = <<>>
    /\ last = NoInstruction
    /\ steps = 0
    /\ Alone

\* run without the is_empty check
RunStartUnchecked ==
    /\ status = "Created"
    /\ status' = "Running"
    /\ error' = "None"
    /\ index' = 0
    /\ UNCHANGED <<program, opcodes, base, received, sent, last, steps>>
    /\ UNCHANGED outside

\* the is_empty check and the entry into the loop
RunStart ==
    /\ status = "Created"
    /\ IF opcodes = <<>>
       THEN status' = "Err" /\ error' = "ProgramEmpty"
       ELSE status' = "Running" /\ error' = "None"
    /\ index' = 0
    /\ UNCHANGED <<program, opcodes, base, received, sent, last, steps>>
    /\ UNCHANGED outside

\* the loop condition holds and the cell at index is to be decoded
Fetching ==
    /\ status = "Running"
    /\ index < Len(opcodes)
    /\ steps < StepBound

Fetched == InstructionTryFrom(Cell(opcodes, index))

\* StatusOf with a decode failure treated like the end of the program
StatusOfSwallow(res) ==
    CASE res = "Ok" -> "Running"
      [] res = "Panic" -> "Panic"
      [] res = "InvalidInstruction" -> "Ok"
      [] OTHER -> "Err"

\* what becomes of run after a handler: the loop goes on, the thread
\* panics, or `?` returns the error
StatusOf(res) ==
    CASE res = "Ok" -> "Running"
      [] res = "Panic" -> "Panic"
      [] OTHER -> "Err"

\* the effect of one handler on the machine
Finish(ins, o) ==
    /\ opcodes' = o.opcodes
    /\ index' = o.index
    /\ base' = o.base
    /\ status' = StatusOf(o.res)
    /\ error' = IF o.res \in {"Ok", "Panic"} THEN "None" ELSE o.res
    /\ last' = [op |-> ins.op, at |-> index, modes |-> ins.modes,
                pre |-> opcodes, base0 |-> base, offs |-> o.offs]
    /\ steps' = steps + 1
    /\ UNCHANGED program
    /\ UNCHANGED outside

\* Instruction::try_from(self.opcodes[index])? fails
StepDecodeError ==
    /\ Fetching
    /\ ~Fetched.ok
    /\ Finish(Fetched, Outcome(Fetched.error, opcodes, index, base, <<>>))
    /\ UNCHANGED <<received, sent>>

StepAdd ==
    /\ Fetching
    /\ Fetched.op = "Add"
    /\ Finish(Fetched, Add(opcodes, base, index + 1, Fetched.modes))
    /\ UNCHANGED <<received, sent>>

StepMultiply ==
    /\ Fetching
    /\ Fetched.op = "Multiply"
    /\ Finish(Fetched, Multiply(opcodes, base, index + 1, Fetched.modes))
    /\ UNCHANGED <<received, sent>>

StepInput ==
    /\ Fetching
    /\ Fetched.op = "Input"
    /\ \E input \in InputEvents :
         LET o == Input(opcodes, base, index + 1, Fetched.modes, input)
         IN  /\ Finish(Fetched, o)
             /\ received' = IF o.res = "Ok" THEN Append(received, input.value)
                            ELSE received
    /\ UNCHANGED sent

StepOutput ==
    /\ Fetching
    /\ Fetched.op = "Output"
    /\ \E accepted \in BOOLEAN :
         LET o == Output(opcodes, base, index + 1, Fetched.modes, accepted)
         IN  /\ Finish(Fetched, o)
             /\ sent' = IF o.res = "Ok"
                        THEN Append(sent, Cell(o.opcodes, o.offs[1]))
                        ELSE sent
    /\ UNCHANGED received

StepJumpIf ==
    /\ Fetching
    /\ Fetched.op = "JumpIf"
    /\ Finish(Fetched, JumpIf(opcodes, base, index + 1, Fetched.modes))
    /\ UNCHANGED <<received, sent>>

StepJumpIfNot ==
    /\ Fetching
    /\ Fetched.op = "JumpIfNot"
    /\ Finish(Fetched, JumpIfNot(opcodes, base, index + 1, Fetched.modes))
    /\ UNCHANGED <<received, sent>>

StepLessThan ==
    /\ Fetching
    /\ Fetched.op = "LessThan"
    /\ Finish(Fetched, LessThan(opcodes, base, index + 1, Fetched.modes))
    /\ UNCHANGED <<received, sent>>

StepEquals ==
    /\ Fetching
    /\ Fetched.op = "Equals"
    /\ Finish(Fetched, Equals(opcodes, base, index + 1, Fetched.modes))
    /\ UNCHANGED <<received, sent>>

StepModifyBase ==
    /\ Fetching
    /\ Fetched.op = "ModifyBase"
    /\ Finish(Fetched, ModifyBase(opcodes, base, index + 1, Fetched.modes))
    /\ UNCHANGED <<received, sent>>

\* Halt: break, then Ok(())
StepHalt ==
    /\ Fetching
    /\ Fetched.op = "Halt"
    /\ status' = "Ok"
    /\ error' = "None"
    /\ index' = index + 1
    /\ last' = [op |-> "Halt", at |-> index, modes |-> <<>>, pre |-> opcodes,
                base0 |-> base, offs |-> <<>>]
    /\ steps' = steps + 1
    /\ UNCHANGED <<program, opcodes, base, received, sent>>
    /\ UNCHANGED outside

\* the loop condition index < self.opcodes.len() fails, then Ok(())
LoopExit ==
    /\ status = "Running"
    /\ index >= Len(opcodes)
    /\ status' = "Ok"
    /\ UNCHANGED <<program, opcodes, index, base, error, received, sent,
                   last, steps>>
    /\ UNCHANGED outside

Next ==
    \/ RunStart
    \/ StepDecodeError
    \/ StepAdd
    \/ StepMultiply
    \/ StepInput
    \/ StepOutput
    \/ StepJumpIf
    \/ StepJumpIfNot
    \/ StepLessThan
    \/ StepEquals
    \/ StepModifyBase
    \/ StepHalt
    \/ LoopExit

Spec == Init /\ [][Next]_vars

\* single-cell programs: every instruction code with every decimal digit in
\* the three mode positions, of either sign; cells of the instructions with
\* three parameters that have digits to the left of their mode digits
DecodeCells ==
    {sign * (c + 100 * d1 + 1000 * d2 + 10000 * d3) :
        sign \in {1, -1}, c \in InstructionCodes,
        d1 \in 0..9, d2 \in 0..9, d3 \in 0..9}
    \cup {c + 100 * m1 + 1000 * m2 + 10000 * m3 + 100000 * d4 + 1000000 * d5 :
            c \in {1, 2, 7, 8}, m1 \in 0..2, m2 \in 0..2, m3 \in 0..2,
            d4 \in 0..9, d5 \in 0..1}

InitDecode ==
    /\ program \in {<<v>> : v \in DecodeCells}
    /\ opcodes = program
    /\ index = 0
    /\ base = 0
    /\ status = "Created"
    /\ error = "None"
    /\ received = <<>>
    /\ sent = <<>>
    /\ last = NoInstruction
    /\ steps = 0
    /\ Alone

\* the machine started on a single instruction cell
SpecDecode == InitDecode /\ [][Next]_vars

----------------------------------------------------------------------------
(* The single-shot topologies: run_diagnostics and boost_keycode make two  *)
(* channels with mpsc::sync_channel(0), move a Program into a new thread   *)
(* that calls run().unwrap(), send one value and receive.                  *)
(* A send on a sync_channel(0) offers its value and blocks; the recv that  *)
(* takes the value releases the sender.  An endpoint lives as long as the  *)
(* thread that owns it.                                                    *)

SingleShot == {"run_diagnostics", "boost_keycode"}

\* the host functions that run one Program in one thread, connected by two
\* channels made with mpsc::sync_channel(0)
Hosted == SingleShot \cup {"painting_robot"}

\* (sender_to_thread, receiver_from_host) and
\* (sender_to_host, receiver_from_thread)
ToThread == 0
ToHost == 1

\* the spawned thread still owns the Program and its two endpoints
ThreadAlive == status \in {"Created", "Running", "Sending"}

\* the host function has not returned: its endpoints are not dropped
HostAlive == host.pc # "returned"

\* programs handed to the host function: the programs of the tests and
\* short sequences of instructions
In == <<103, 0>>
Out7 == <<104, 7>>
Out42 == <<104, 42>>
Stop == <<99>>
Bad == <<98>>
InNegative == <<3, -1>>
Blocks == {In, Out7, Out42, Stop, Bad, InNegative}

RECURSIVE Flatten(_)
Flatten(ss) == IF ss = <<>> THEN <<>> ELSE Head(ss) \o Flatten(Tail(ss))

HostedPrograms ==
    {Day5Outputs, Day5Example, Day9Grow, AllInstructions}
    \cup {Flatten(bs) : bs \in UNION {[1..n -> Blocks] : n \in 0..MaxBlocks}}

InitSingleShot ==
    /\ topology \in SingleShot
    /\ program \in HostedPrograms
    /\ opcodes = program
    /\ index = 0
    /\ base = 0
    /\ status = "Created"
    /\ error = "None"
    /\ received = <<>>
    /\ sent = <<>>
    /\ last = NoInstruction
    /\ steps = 0
    /\ \E id \in 0..MaxInput :
         host = [pc |-> "send", arg |-> id, diagnostics |-> <<>>,
                 result |-> "None"]
    /\ chans = [c \in {ToThread, ToHost} |-> <<>>]
    /\ amps = <<>>

\* the host function returns
Return(result) == [host EXCEPT !.pc = "returned", !.result = result]

\* what the `?` after send makes of a SendError: Error::SendError in
\* run_diagnostics, intcode::Error::MissingOutput in boost_keycode
SendFailure ==
    IF topology = "run_diagnostics" THEN "SendError" ELSE "MissingOutput"

\* HostSend that returns without waiting for the receiver
HostSendNoWait ==
    /\ topology \in SingleShot
    /\ host.pc = "send"
    /\ chans' = [chans EXCEPT ![ToThread] = Append(@, host.arg)]
    /\ host' = [host EXCEPT !.pc = "recv"]
    /\ UNCHANGED <<program, opcodes, index, base, status, error, received,
                   sent, last, steps, topology, amps>>

\* sender_to_thread.send(..): the value is offered and the host blocks
HostSend ==
    /\ topology \in SingleShot
    /\ host.pc = "send"
    /\ chans' = [chans EXCEPT ![ToThread] = Append(@, host.arg)]
    /\ host' = [host EXCEPT !.pc = "sending"]
    /\ UNCHANGED <<program, opcodes, index, base, status, error, received,
                   sent, last, steps, topology, amps>>

\* the receiver is dropped, before the send or while the host is blocked
\* in it: send returns the value in a SendError
HostSendDisconnected ==
    /\ topology \in SingleShot
    /\ host.pc = "sending"
    /\ ~ThreadAlive
    /\ chans' = [chans EXCEPT ![ToThread] = <<>>]
    /\ host' = Return(SendFailure)
    /\ UNCHANGED <<program, opcodes, index, base, status, error, received,
                   sent, last, steps, topology, amps>>

\* HostRecv that puts the value in front of the diagnostics
HostRecvInFront ==
    /\ topology \in SingleShot
    /\ host.pc = "recv"
    /\ chans[ToHost] # <<>>
    /\ chans' = [chans EXCEPT ![ToHost] = Tail(@)]
    /\ host' = [host EXCEPT
                  !.diagnostics = <<Head(chans[ToHost])>> \o @,
                  !.pc = IF topology = "boost_keycode" THEN "returned"
                         ELSE "recv",
                  !.result = IF topology = "boost_keycode" THEN "Ok"
                             ELSE "None"]
    /\ status' = "Running"
    /\ UNCHANGED <<program, opcodes, index, base, error, received, sent,
                   last, steps, topology, amps>>

\* receiver_from_thread.recv() takes the value the Program offers and
\* releases its send; run_diagnostics pushes it and loops, boost_keycode
\* returns it
HostRecv ==
    /\ topology \in SingleShot
    /\ host.pc = "recv"
    /\ chans[ToHost] # <<>>
    /\ chans' = [chans EXCEPT ![ToHost] = Tail(@)]
    /\ host' = [host EXCEPT
                  !.diagnostics = Append(@, Head(chans[ToHost])),
                  !.pc = IF topology = "boost_keycode" THEN "returned"
                         ELSE "recv",
                  !.result = IF topology = "boost_keycode" THEN "Ok"
                             ELSE "None"]
    /\ status' = "Running"
    /\ UNCHANGED <<program, opcodes, index, base, error, received, sent,
                   last, steps, topology, amps>>

\* HostRecvDisconnected that sees the disconnect only after a Halt
HostRecvAfterHaltOnly ==
    /\ topology \in SingleShot
    /\ host.pc = "recv"
    /\ chans[ToHost] = <<>>
    /\ status = "Ok"
    /\ host' = Return(IF topology = "run_diagnostics" THEN "Ok"
                      ELSE "MissingInput")
    /\ UNCHANGED <<program, opcodes, index, base, status, error, received,
                   sent, last, steps, topology, chans, amps>>

\* recv() on a channel whose sender is dropped: run_diagnostics returns
\* Ok(diagnostics), boost_keycode the RecvError as MissingInput
HostRecvDisconnected ==
    /\ topology \in SingleShot
    /\ host.pc = "recv"
    /\ chans[ToHost] = <<>>
    /\ ~ThreadAlive
    /\ host' = Return(IF topology = "run_diagnostics" THEN "Ok"
                      ELSE "MissingInput")
    /\ UNCHANGED <<program, opcodes, index, base, status, error, received,
                   sent, last, steps, topology, chans, amps>>

\* Input whose parameter cannot be resolved: no channel operation
ThreadInputUnresolved ==
    /\ topology \in Hosted
    /\ Fetching
    /\ Fetched.op = "Input"
    /\ LET o == Input(opcodes, base, index + 1, Fetched.modes,
                      [ok |-> FALSE, value |-> 0])
       IN  /\ o.res # "MissingInput"
           /\ Finish(Fetched, o)
    /\ UNCHANGED <<received, sent>>

\* self.inputs.recv() takes the value the host offers and releases the
\* host's send
ThreadInput ==
    /\ topology \in Hosted
    /\ Fetching
    /\ Fetched.op = "Input"
    /\ chans[ToThread] # <<>>
    /\ LET o == Input(opcodes, base, index + 1, Fetched.modes,
                      [ok |-> TRUE, value |-> Head(chans[ToThread])])
       IN  /\ o.res = "Ok"
           /\ opcodes' = o.opcodes
           /\ index' = o.index
           /\ base' = o.base
           /\ last' = [op |-> "Input", at |-> index, modes |-> Fetched.modes,
                       pre |-> opcodes, base0 |-> base, offs |-> o.offs]
    /\ received' = Append(received, Head(chans[ToThread]))
    /\ chans' = [chans EXCEPT ![ToThread] = Tail(@)]
    /\ host' = [host EXCEPT !.pc = "recv"]
    /\ steps' = steps + 1
    /\ UNCHANGED <<program, status, error, sent, topology, amps>>

\* self.inputs.recv() on a channel whose sender is dropped
ThreadInputDisconnected ==
    /\ topology \in Hosted
    /\ Fetching
    /\ Fetched.op = "Input"
    /\ chans[ToThread] = <<>>
    /\ ~HostAlive
    /\ LET o == Input(opcodes, base, index + 1, Fetched.modes,
                      [ok |-> FALSE, value |-> 0])
       IN  /\ o.res = "MissingInput"
           /\ Finish(Fetched, o)
    /\ UNCHANGED <<received, sent>>

\* Output whose parameter cannot be resolved, or whose receiver is gone
ThreadOutputFail ==
    /\ topology \in Hosted
    /\ Fetching
    /\ Fetched.op = "Output"
    /\ LET o == Output(opcodes, base, index + 1, Fetched.modes, FALSE)
       IN  /\ o.res = "MissingOutput" => ~HostAlive
           /\ Finish(Fetched, o)
    /\ UNCHANGED <<received, sent>>

\* self.outputs.send(..): the value is offered and the thread blocks; the
\* host does not return while it is offered
ThreadOutput ==
    /\ topology \in Hosted
    /\ Fetching
    /\ Fetched.op = "Output"
    /\ HostAlive
    /\ LET o == Output(opcodes, base, index + 1, Fetched.modes, TRUE)
       IN  /\ o.res = "Ok"
           /\ opcodes' = o.opcodes
           /\ index' = o.index
           /\ base' = o.base
           /\ last' = [op |-> "Output", at |-> index, modes |-> Fetched.modes,
                       pre |-> opcodes, base0 |-> base, offs |-> o.offs]
           /\ chans' = [chans EXCEPT
                          ![ToHost] = Append(@, Cell(o.opcodes, o.offs[1]))]
           /\ sent' = Append(sent, Cell(o.opcodes, o.offs[1]))
    /\ status' = "Sending"
    /\ steps' = steps + 1
    /\ UNCHANGED <<program, error, received, topology, host, amps>>

NextSingleShot ==
    \/ RunStart
    \/ StepDecodeError
    \/ StepAdd
    \/ StepMultiply
    \/ StepJumpIf
    \/ StepJumpIfNot
    \/ StepLessThan
    \/ StepEquals
    \/ StepModifyBase
    \/ StepHalt
    \/ LoopExit
    \/ ThreadInputUnresolved
    \/ ThreadInput
    \/ ThreadInputDisconnected
    \/ ThreadOutputFail
    \/ ThreadOutput
    \/ HostSend
    \/ HostSendDisconnected
    \/ HostRecv
    \/ HostRecvDisconnected

SpecSingleShot == InitSingleShot /\ [][NextSingleShot]_vars

----------------------------------------------------------------------------
(* process_opcode of src/2019-12-07: the interpreter the amplifier threads *)
(* run.  It has the modes Position and Immediate only, no relative base,   *)
(* and it never grows the memory: an offset beyond the end is OutOfBound.  *)

\* impl TryFrom<&str> for Mode of src/2019-12-07
Mode7TryFrom(code) ==
    CASE code = <<"0">> -> "Position"
      [] code = <<"1">> -> "Immediate"
      [] OTHER -> "InvalidMode"

Mode7At(intcode, i) ==
    LET g == StrGet(intcode, i, i + 1)
    IN Mode7TryFrom(IF g = None THEN <<"0">> ELSE g)

Arm7(code) ==
    CASE code = 1 -> [op |-> "Add", n |-> 3]
      [] code = 2 -> [op |-> "Multiply", n |-> 3]
      [] code = 3 -> [op |-> "Input", n |-> 1]
      [] code = 4 -> [op |-> "Output", n |-> 1]
      [] code = 5 -> [op |-> "JumpIf", n |-> 2]
      [] code = 6 -> [op |-> "JumpIfNot", n |-> 2]
      [] code = 7 -> [op |-> "LessThan", n |-> 3]
      [] code = 8 -> [op |-> "Equals", n |-> 3]
      [] code = 99 -> [op |-> "Halt", n |-> 0]
      [] OTHER -> [op |-> "Invalid", n |-> -1]

\* impl TryFrom<i64> for Instruction of src/2019-12-07
Instruction7TryFrom(intcode) ==
    LET str == to_string(intcode)
        length == Len(str)
        low == IF length < 2 THEN length ELSE 2
        instruction_str == StrGet(str, length - low, length)
        rest == Reverse(SubSeq(str, 1, length - Len(instruction_str)))
        instruction_code == ParseUsize(instruction_str)
        arm == Arm7(instruction_code)
        modes == [i \in 1..arm.n |-> Mode7At(rest, i - 1)]
    IN  IF instruction_code < 0 \/ arm.n < 0
        THEN [ok |-> FALSE, op |-> "Invalid", modes |-> <<>>,
              error |-> "InvalidInstruction"]
        ELSE IF \E i \in 1..arm.n : modes[i] = "InvalidMode"
        THEN [ok |-> FALSE, op |-> "Invalid", modes |-> <<>>,
              error |-> "InvalidMode"]
        ELSE [ok |-> TRUE, op |-> arm.op, modes |-> modes, error |-> "None"]

\* macro offset_from_mode!; "Panic" is the out-of-bounds panic of
\* program[$index]
offset_from_mode7(m, i, mode) ==
    LET o == IF mode = "Immediate" THEN [ok |-> TRUE, offset |-> i]
             ELSE OffsetTryFrom(Cell(m, i))
    IN  IF mode # "Immediate" /\ i >= Len(m) THEN [res |-> "Panic", offset |-> 0]
        ELSE IF ~o.ok THEN [res |-> "InvalidIntOffset", offset |-> 0]
        ELSE IF o.offset < Len(m) THEN [res |-> "Ok", offset |-> o.offset]
        ELSE [res |-> "OutOfBound", offset |-> 0]

\* the parameters of one instruction, each followed by index += 1
RECURSIVE Operands7(_, _, _)
Operands7(m, i, modes) ==
    IF modes = <<>> THEN [res |-> "Ok", index |-> i, offs |-> <<>>]
    ELSE LET r == offset_from_mode7(m, i, Head(modes))
         IN  IF r.res # "Ok" THEN [res |-> r.res, index |-> i, offs |-> <<>>]
             ELSE LET t == Operands7(m, i + 1, Tail(modes))
                  IN  [t EXCEPT !.offs = <<r.offset>> \o @]

Outcome7(res, m, i) == [res |-> res, opcodes |-> m, index |-> i]

\* the value Add, Multiply, LessThan and Equals store
Result7(op, a, b) ==
    CASE op = "Add" -> a + b
      [] op = "Multiply" -> a * b
      [] op = "LessThan" -> IF a < b THEN 1 ELSE 0
      [] op = "Equals" -> IF a = b THEN 1 ELSE 0

\* the arms Add, Multiply, LessThan, Equals
Store7(m, i, ins) ==
    LET r == Operands7(m, i, ins.modes)
    IN  IF r.res # "Ok" THEN Outcome7(r.res, m, r.index)
        ELSE Outcome7("Ok",
                      [m EXCEPT ![r.offs[3] + 1] =
                          Result7(ins.op, Cell(m, r.offs[1]),
                                  Cell(m, r.offs[2]))],
                      r.index)

\* the arms JumpIf and JumpIfNot
Jump7(m, i, ins) ==
    LET c == offset_from_mode7(m, i, ins.modes[1])
    IN  IF c.res # "Ok" THEN Outcome7(c.res, m, i)
        ELSE IF (ins.op = "JumpIf") = (Cell(m, c.offset) # 0)
        THEN LET p == offset_from_mode7(m, i + 1, ins.modes[2])
             IN  IF p.res # "Ok" THEN Outcome7(p.res, m, i + 1)
                 ELSE LET target == OffsetTryFrom(Cell(m, p.offset))
                      IN  IF target.ok
                          THEN Outcome7("Ok", m, target.offset)
                          ELSE Outcome7("InvalidIntOffset", m, i + 1)
        ELSE Outcome7("Ok", m, i + 2)

----------------------------------------------------------------------------
(* optimize_thrusters of src/2019-12-07: for each permutation of the phase *)
(* settings the host makes the channels 0..NumAmps with mpsc::channel(),   *)
(* sends phase setting k into channel k - 1 and then spawns thread k,      *)
(* which runs process_opcode(..).unwrap() receiving from channel k - 1 and *)
(* sending into channel k.  A send on such a channel appends the value and *)
(* returns at once.  Every value in a channel carries its sender:          *)
(* 0 for the host, k for thread k.                                         *)

NumAmps == 5

Amps == 1..NumAmps

Thrusters == {"optimize_thrusters", "optimize_thrusters_loopback"}

Loopback == topology = "optimize_thrusters_loopback"

\* programs of the tests of src/2019-12-07
Day7Thrusters ==
    <<3, 15, 3, 16, 1002, 16, 10, 16, 1, 16, 15, 15, 4, 15, 99, 0, 0>>
Day7Feedback ==
    <<3, 26, 1001, 26, -4, 26, 3, 27, 1002, 27, 2, 27, 1, 27, 26, 27, 4, 27,
      1001, 28, -1, 28, 1005, 28, 6, 99, 0, 0, 5>>

\* an amplifier that executes every instruction once and outputs the sum
\* of its two inputs
AllInstructions7 ==
    <<3, 29, 3, 30, 1102, 2, 3, 31, 1105, 0, 0, 1106, 1, 0, 1107, 0, 1, 31,
      1108, 1, 1, 31, 1, 29, 30, 31, 4, 31, 99, 0, 0, 0>>

AmpPrograms ==
    {Day7Thrusters, Day7Feedback, AllInstructions7, <<>>, <<99>>,
     <<4, 0, 99>>, <<4, 0, 3, 0>>, <<3, 1, 3, 1, 104, 5>>,
     <<3, 1, 3, 1, 104, -5>>,
     <<3, 3, 3, 3, 98>>, <<3, -1>>, <<104>>}

\* the vector given to phase_settings_combinations
Settings == IF Loopback THEN <<5, 6, 7, 8, 9>> ELSE <<0, 1, 2, 3, 4>>

\* phase_settings_combinations that removes the first of the settings
\* instead of the chosen one
RECURSIVE phase_settings_combinations_tail(_)
phase_settings_combinations_tail(settings) ==
    IF Len(settings) = 1 THEN {<<settings[1]>>}
    ELSE UNION {{<<settings[i]>> \o combination :
                    combination \in
                        phase_settings_combinations_tail(Tail(settings))} :
                i \in 1..Len(settings)}

\* phase_settings_combinations: a vector of one setting gives that vector;
\* otherwise every setting, followed by every combination of the settings
\* that remain when retain has removed the cells equal to it
RECURSIVE phase_settings_combinations(_)
phase_settings_combinations(settings) ==
    IF Len(settings) = 1 THEN {<<settings[1]>>}
    ELSE UNION {{<<settings[i]>> \o combination :
                    combination \in
                        phase_settings_combinations(
                            SelectSeq(settings,
                                      LAMBDA s : s # settings[i]))} :
                i \in 1..Len(settings)}

\* the permutations the for loop is followed through, the last of them
\* the settings in descending order: the HashSet yields them in any order
PhaseOrders ==
    {o \in UNION {[1..n -> phase_settings_combinations(Settings)
                                \cap {Settings, Reverse(Settings)}] :
                     n \in 1..MaxRounds} :
        /\ \A i, j \in 1..Len(o) : i # j => o[i] # o[j]
        /\ o[Len(o)] = Reverse(Settings)}

\* a thread that is not spawned yet
Unspawned(m) ==
    [opcodes |-> m, index |-> 0, status |-> "Unspawned", error |-> "None",
     received |-> <<>>, sent |-> <<>>, steps |-> 0]

InitThrusters ==
    /\ topology \in Thrusters
    /\ program \in AmpPrograms
    /\ opcodes = <<>>
    /\ index = 0
    /\ base = 0
    /\ status = "NoThread"
    /\ error = "None"
    /\ received = <<>>
    /\ sent = <<>>
    /\ last = NoInstruction
    /\ steps = 0
    /\ \E o \in PhaseOrders :
         host = [pc |-> "phase", phase_settings |-> Head(o), todo |-> Tail(o),
                 k |-> 1, output |-> 0, max_thrusting |-> 0,
                 signals |-> <<>>, received |-> <<>>, result |-> "None"]
    /\ chans = [c \in 0..NumAmps |-> <<>>]
    /\ amps = [k \in Amps |-> Unspawned(program)]

\* thread k has not left process_opcode: it owns its two endpoints
AmpAlive(k) == amps[k].status = "Running"

\* the receiver of channel c is not dropped: the host holds it until it
\* moves it into thread c + 1, and it keeps the receiver of the last channel
ReceiverAlive(c) ==
    IF c < NumAmps /\ amps[c + 1].status # "Unspawned" THEN AmpAlive(c + 1)
    ELSE HostAlive

\* some sender of channel c is not dropped: thread c holds one; the host
\* holds init_sender for channel 0 and, in `sender`, one for the channel it
\* made last
SendersAlive(c) ==
    \/ c > 0 /\ AmpAlive(c)
    \/ HostAlive /\ (c = 0 \/ c = host.k - 1)

Message(by, value) == [by |-> by, value |-> value]

\* sender.send(phase_setting)?
ThrustersSendPhase ==
    /\ topology \in Thrusters
    /\ host.pc = "phase"
    /\ IF ReceiverAlive(host.k - 1)
       THEN /\ chans' = [chans EXCEPT ![host.k - 1] =
                           Append(@, Message(0, host.phase_settings[host.k]))]
            /\ host' = [host EXCEPT !.pc = "spawn"]
       ELSE /\ host' = Return("MissingOutput")
            /\ UNCHANGED chans
    /\ UNCHANGED <<program, opcodes, index, base, status, error, received,
                   sent, last, steps, topology, amps>>

\* mpsc::channel() and thread::Builder::spawn for thread k; then the next
\* phase setting, or the end of the for loop
ThrustersSpawn ==
    /\ topology \in Thrusters
    /\ host.pc = "spawn"
    /\ amps' = [amps EXCEPT ![host.k].status = "Running"]
    /\ host' = [host EXCEPT !.k = @ + 1,
                            !.pc = IF host.k = NumAmps THEN "seed"
                                   ELSE "phase"]
    /\ UNCHANGED <<program, opcodes, index, base, status, error, received,
                   sent, last, steps, topology, chans>>

\* init_sender.send(0)?
ThrustersSeed ==
    /\ topology \in Thrusters
    /\ host.pc = "seed"
    /\ IF ReceiverAlive(0)
       THEN /\ chans' = [chans EXCEPT ![0] = Append(@, Message(0, 0))]
            /\ host' = [host EXCEPT !.pc = "recv"]
       ELSE /\ host' = Return("MissingOutput")
            /\ UNCHANGED chans
    /\ UNCHANGED <<program, opcodes, index, base, status, error, received,
                   sent, last, steps, topology, amps>>

\* receiver.recv()?, the first receive of either feature
ThrustersRecv ==
    /\ topology \in Thrusters
    /\ host.pc = "recv"
    /\ chans[NumAmps] # <<>> \/ ~SendersAlive(NumAmps)
    /\ IF chans[NumAmps] # <<>>
       THEN /\ chans' = [chans EXCEPT ![NumAmps] = Tail(@)]
            /\ host' = [host EXCEPT
                          !.output = Head(chans[NumAmps]).value,
                          !.received = Append(@, Head(chans[NumAmps])),
                          !.pc = IF Loopback THEN "forward" ELSE "compare"]
       ELSE /\ host' = Return("MissingInput")
            /\ UNCHANGED chans
    /\ UNCHANGED <<program, opcodes, index, base, status, error, received,
                   sent, last, steps, topology, amps>>

\* feature loopback: init_sender.send(output), break when it fails
ThrustersForward ==
    /\ topology \in Thrusters
    /\ host.pc = "forward"
    /\ IF ReceiverAlive(0)
       THEN /\ chans' = [chans EXCEPT ![0] = Append(@, Message(0, host.output))]
            /\ host' = [host EXCEPT !.pc = "recv_loop"]
       ELSE /\ host' = [host EXCEPT !.pc = "compare"]
            /\ UNCHANGED chans
    /\ UNCHANGED <<program, opcodes, index, base, status, error, received,
                   sent, last, steps, topology, amps>>

\* feature loopback: output = match receiver.recv(), break when it fails
ThrustersRecvLoop ==
    /\ topology \in Thrusters
    /\ host.pc = "recv_loop"
    /\ chans[NumAmps] # <<>> \/ ~SendersAlive(NumAmps)
    /\ IF chans[NumAmps] # <<>>
       THEN /\ chans' = [chans EXCEPT ![NumAmps] = Tail(@)]
            /\ host' = [host EXCEPT
                          !.output = Head(chans[NumAmps]).value,
                          !.received = Append(@, Head(chans[NumAmps])),
                          !.pc = "forward"]
       ELSE /\ host' = [host EXCEPT !.pc = "compare"]
            /\ UNCHANGED chans
    /\ UNCHANGED <<program, opcodes, index, base, status, error, received,
                   sent, last, steps, topology, amps>>

\* if output > max_thrusting, then the next permutation with new channels
\* (signals keeps the output of every permutation gone through)
\* and new threads, or Ok(max_thrusting); the threads of the permutation
\* left behind are detached and no longer followed
ThrustersCompare ==
    /\ topology \in Thrusters
    /\ host.pc = "compare"
    /\ LET max == IF host.output > host.max_thrusting THEN host.output
                  ELSE host.max_thrusting
       IN  IF host.todo = <<>>
           THEN /\ host' = [host EXCEPT !.max_thrusting = max,
                                        !.signals = Append(@, host.output),
                                        !.pc = "returned", !.result = "Ok"]
                /\ UNCHANGED <<chans, amps>>
           ELSE /\ host' = [host EXCEPT !.max_thrusting = max,
                                        !.signals = Append(@, host.output),
                                        !.phase_settings = Head(host.todo),
                                        !.todo = Tail(host.todo),
                                        !.received = <<>>,
                                        !.k = 1, !.pc = "phase"]
                /\ chans' = [c \in 0..NumAmps |-> <<>>]
                /\ amps' = [k \in Amps |-> Unspawned(program)]
    /\ UNCHANGED <<program, opcodes, index, base, status, error, received,
                   sent, last, steps, topology>>

\* thread k is at the head of the while loop and its condition holds
AmpFetching(k) ==
    /\ topology \in Thrusters
    /\ AmpAlive(k)
    /\ amps[k].index < Len(amps[k].opcodes)
    /\ amps[k].steps < MaxAmpSteps

AmpFetched(k) == Instruction7TryFrom(Cell(amps[k].opcodes, amps[k].index))

\* the effect of one arm on thread k
AmpFinish(k, o) ==
    /\ amps' = [amps EXCEPT
                  ![k].opcodes = o.opcodes,
                  ![k].index = o.index,
                  ![k].status = StatusOf(o.res),
                  ![k].error = IF o.res \in {"Ok", "Panic"} THEN "None"
                               ELSE o.res,
                  ![k].steps = @ + 1]
    /\ UNCHANGED <<program, opcodes, index, base, status, error, received,
                   sent, last, steps, topology, host>>

\* if program.is_empty() { return Err(MyError::ProgramEmpty) }
AmpEmpty(k) ==
    /\ topology \in Thrusters
    /\ AmpAlive(k)
    /\ amps[k].opcodes = <<>>
    /\ amps' = [amps EXCEPT ![k].status = "Err", ![k].error = "ProgramEmpty"]
    /\ UNCHANGED <<program, opcodes, index, base, status, error, received,
                   sent, last, steps, topology, host, chans>>

AmpDecodeError(k) ==
    /\ AmpFetching(k)
    /\ ~AmpFetched(k).ok
    /\ AmpFinish(k, Outcome7(AmpFetched(k).error, amps[k].opcodes,
                             amps[k].index))
    /\ UNCHANGED chans

AmpAdd(k) ==
    /\ AmpFetching(k)
    /\ AmpFetched(k).op = "Add"
    /\ AmpFinish(k, Store7(amps[k].opcodes, amps[k].index + 1, AmpFetched(k)))
    /\ UNCHANGED chans

AmpMultiply(k) ==
    /\ AmpFetching(k)
    /\ AmpFetched(k).op = "Multiply"
    /\ AmpFinish(k, Store7(amps[k].opcodes, amps[k].index + 1, AmpFetched(k)))
    /\ UNCHANGED chans

AmpLessThan(k) ==
    /\ AmpFetching(k)
    /\ AmpFetched(k).op = "LessThan"
    /\ AmpFinish(k, Store7(amps[k].opcodes, amps[k].index + 1, AmpFetched(k)))
    /\ UNCHANGED chans

AmpEquals(k) ==
    /\ AmpFetching(k)
    /\ AmpFetched(k).op = "Equals"
    /\ AmpFinish(k, Store7(amps[k].opcodes, amps[k].index + 1, AmpFetched(k)))
    /\ UNCHANGED chans

AmpJumpIf(k) ==
    /\ AmpFetching(k)
    /\ AmpFetched(k).op = "JumpIf"
    /\ AmpFinish(k, Jump7(amps[k].opcodes, amps[k].index + 1, AmpFetched(k)))
    /\ UNCHANGED chans

AmpJumpIfNot(k) ==
    /\ AmpFetching(k)
    /\ AmpFetched(k).op = "JumpIfNot"
    /\ AmpFinish(k, Jump7(amps[k].opcodes, amps[k].index + 1, AmpFetched(k)))
    /\ UNCHANGED chans

\* the arm Input: receiver.recv()? blocks while channel k - 1 is empty and
\* has a sender
AmpInput(k) ==
    /\ AmpFetching(k)
    /\ AmpFetched(k).op = "Input"
    /\ LET m == amps[k].opcodes
           i == amps[k].index + 1
           r == offset_from_mode7(m, i, AmpFetched(k).modes[1])
       IN  IF r.res # "Ok"
           THEN AmpFinish(k, Outcome7(r.res, m, i)) /\ UNCHANGED chans
           ELSE /\ chans[k - 1] # <<>> \/ ~SendersAlive(k - 1)
                /\ IF chans[k - 1] # <<>>
                   THEN /\ amps' = [amps EXCEPT
                              ![k].opcodes =
                                  [m EXCEPT ![r.offset + 1] =
                                      Head(chans[k - 1]).value],
                              ![k].index = i + 1,
                              ![k].received = Append(@, Head(chans[k - 1])),
                              ![k].steps = @ + 1]
                        /\ chans' = [chans EXCEPT ![k - 1] = Tail(@)]
                        /\ UNCHANGED <<program, opcodes, index, base, status,
                                       error, received, sent, last, steps,
                                       topology, host>>
                   ELSE /\ AmpFinish(k, Outcome7("MissingInput", m, i + 1))
                        /\ UNCHANGED chans

\* the arm Output: sender.send(..)? fails when the receiver of channel k is
\* dropped
AmpOutput(k) ==
    /\ AmpFetching(k)
    /\ AmpFetched(k).op = "Output"
    /\ LET m == amps[k].opcodes
           i == amps[k].index + 1
           r == offset_from_mode7(m, i, AmpFetched(k).modes[1])
       IN  IF r.res # "Ok"
           THEN AmpFinish(k, Outcome7(r.res, m, i)) /\ UNCHANGED chans
           ELSE IF ReceiverAlive(k)
           THEN /\ amps' = [amps EXCEPT
                              ![k].index = i + 1,
                              ![k].sent = Append(@, Cell(m, r.offset)),
                              ![k].steps = @ + 1]
                /\ chans' = [chans EXCEPT ![k] =
                               Append(@, Message(k, Cell(m, r.offset)))]
                /\ UNCHANGED <<program, opcodes, index, base, status, error,
                               received, sent, last, steps, topology, host>>
           ELSE /\ AmpFinish(k, Outcome7("MissingOutput", m, i + 1))
                /\ UNCHANGED chans

\* Halt: break, then Ok(())
AmpHalt(k) ==
    /\ AmpFetching(k)
    /\ AmpFetched(k).op = "Halt"
    /\ amps' = [amps EXCEPT ![k].status = "Ok", ![k].index = @ + 1,
                            ![k].steps = @ + 1]
    /\ UNCHANGED <<program, opcodes, index, base, status, error, received,
                   sent, last, steps, topology, host, chans>>

\* the loop condition index < program.len() fails, then Ok(())
AmpLoopExit(k) ==
    /\ topology \in Thrusters
    /\ AmpAlive(k)
    /\ amps[k].opcodes # <<>>
    /\ amps[k].index >= Len(amps[k].opcodes)
    /\ amps' = [amps EXCEPT ![k].status = "Ok"]
    /\ UNCHANGED <<program, opcodes, index, base, status, error, received,
                   sent, last, steps, topology, host, chans>>

NextThrusters ==
    \/ ThrustersSendPhase
    \/ ThrustersSpawn
    \/ ThrustersSeed
    \/ ThrustersRecv
    \/ ThrustersForward
    \/ ThrustersRecvLoop
    \/ ThrustersCompare
    \/ \E k \in Amps : AmpEmpty(k)
    \/ \E k \in Amps : AmpDecodeError(k)
    \/ \E k \in Amps : AmpAdd(k)
    \/ \E k \in Amps : AmpMultiply(k)
    \/ \E k \in Amps : AmpInput(k)
    \/ \E k \in Amps : AmpOutput(k)
    \/ \E k \in Amps : AmpJumpIf(k)
    \/ \E k \in Amps : AmpJumpIfNot(k)
    \/ \E k \in Amps : AmpLessThan(k)
    \/ \E k \in Amps : AmpEquals(k)
    \/ \E k \in Amps : AmpHalt(k)
    \/ \E k \in Amps : AmpLoopExit(k)

SpecThrusters == InitThrusters /\ [][NextThrusters]_vars

----------------------------------------------------------------------------
(* phase_settings_combinations called on its own *)

\* the vectors given to phase_settings_combinations: the cells need not be
\* distinct
SettingsVectors ==
    UNION {[1..n -> 0..(MaxSettings - 1)] : n \in 0..MaxSettings}

InitCombinations ==
    /\ topology = "phase_settings_combinations"
    /\ program = <<>>
    /\ opcodes = <<>>
    /\ index = 0
    /\ base = 0
    /\ status = "NoThread"
    /\ error = "None"
    /\ received = <<>>
    /\ sent = <<>>
    /\ last = NoInstruction
    /\ steps = 0
    /\ \E settings \in SettingsVectors :
         host = [pc |-> "call", settings |-> settings, combinations |-> {}]
    /\ chans = <<>>
    /\ amps = <<>>

CallCombinations ==
    /\ topology = "phase_settings_combinations"
    /\ host.pc = "call"
    /\ host' = [host EXCEPT
                  !.pc = "returned",
                  !.combinations = phase_settings_combinations(host.settings)]
    /\ UNCHANGED <<program, opcodes, index, base, status, error, received,
                   sent, last, steps, topology, chans, amps>>

SpecCombinations == InitCombinations /\ [][CallCombinations]_vars

----------------------------------------------------------------------------

(* The handheld console of src/2020/08_handheld-halting: a Program is a   *)
(* vector of instructions nop, acc and jmp; execute runs it until the      *)
(* index leaves the vector or an instruction would run again; fix swaps    *)
(* one nop or jmp.  The record host holds the caller, the Program and the  *)
(* State under construction.                                               *)

(* painting_robot of src/2019/11_space-police, built without the feature  *)
(* start-white: the host sends the colour of the panel under the robot,    *)
(* receives the colour to paint and the turn, and moves the robot.         *)

\* impl From<i64> for Color and impl Into<i64> for &mut Color
ColorFrom(int_color) == IF int_color = 1 THEN "White" ELSE "Black"

ColorInto(color) == IF color = "White" THEN 1 ELSE 0

\* impl Add<Turn> for Direction, with Turn::from(0) = Left and
\* Turn::from(1) = Right
DirectionAdd(direction, int_dir) ==
    CASE direction = "Up" -> IF int_dir = 0 THEN "Left" ELSE "Right"
      [] direction = "Left" -> IF int_dir = 0 THEN "Down" ELSE "Up"
      [] direction = "Down" -> IF int_dir = 0 THEN "Right" ELSE "Left"
      [] direction = "Right" -> IF int_dir = 0 THEN "Up" ELSE "Down"

move_forward(direction, position) ==
    CASE direction = "Up" -> <<position[1], position[2] + 1>>
      [] direction = "Left" -> <<position[1] - 1, position[2]>>
      [] direction = "Down" -> <<position[1], position[2] - 1>>
      [] direction = "Right" -> <<position[1] + 1, position[2]>>

\* tiles.entry(position).or_insert(Color::Black)
OrInsertBlack(tiles, position) ==
    IF position \in DOMAIN tiles THEN tiles ELSE tiles @@ (position :> "Black")

\* programs handed to painting_robot: the program of the test, a program
\* with every instruction and short sequences of instructions
Paint0 == <<104, 0>>
Paint1 == <<104, 1>>
OutNegative == <<4, -1>>
RobotBlocks == {In, Paint0, Paint1, Out7, Stop, Bad, InNegative, OutNegative}

\* a program that gives a turn other than 0 and 1 and then asks for the
\* colour of the next panel
RobotBadTurn == In \o Paint1 \o Out7 \o In

RobotPrograms ==
    {RobotExample, AllInstructions, RobotBadTurn}
    \cup {Flatten(bs) :
            bs \in UNION {[1..n -> RobotBlocks] : n \in 0..MaxBlocks}}

\* log keeps what the host sent and received, path the positions of the
\* robot
InitRobot ==
    /\ topology = "painting_robot"
    /\ program \in RobotPrograms
    /\ opcodes = program
    /\ index = 0
    /\ base = 0
    /\ status = "Created"
    /\ error = "None"
    /\ received = <<>>
    /\ sent = <<>>
    /\ last = NoInstruction
    /\ steps = 0
    /\ host = [pc |-> "send", tiles |-> <<>>, position |-> <<0, 0>>,
               direction |-> "Up", log |-> <<>>, path |-> <<<<0, 0>>>>,
               result |-> "None"]
    /\ chans = [c \in {ToThread, ToHost} |-> <<>>]
    /\ amps = <<>>

\* RobotSend that reads the colour of the panel without inserting it
RobotSendNoInsert ==
    /\ topology = "painting_robot"
    /\ host.pc = "send"
    /\ LET color == IF host.position \in DOMAIN host.tiles
                    THEN host.tiles[host.position] ELSE "Black"
       IN  /\ chans' = [chans EXCEPT ![ToThread] = Append(@, ColorInto(color))]
           /\ host' = [host EXCEPT
                         !.pc = "sending",
                         !.log = Append(@, [op |-> "send",
                                            value |-> ColorInto(color),
                                            position |-> host.position])]
    /\ UNCHANGED <<program, opcodes, index, base, status, error, received,
                   sent, last, steps, topology, amps>>

\* the entry of the panel under the robot, then sender_to_thread.send(..):
\* the value is offered and the host blocks
RobotSend ==
    /\ topology = "painting_robot"
    /\ host.pc = "send"
    /\ LET tiles == OrInsertBlack(host.tiles, host.position)
           color == ColorInto(tiles[host.position])
       IN  /\ chans' = [chans EXCEPT ![ToThread] = Append(@, color)]
           /\ host' = [host EXCEPT
                         !.tiles = tiles,
                         !.pc = "sending",
                         !.log = Append(@, [op |-> "send", value |-> color,
                                            position |-> host.position])]
    /\ UNCHANGED <<program, opcodes, index, base, status, error, received,
                   sent, last, steps, topology, amps>>

\* the send fails because the Program's receiver is dropped: break, then
\* Ok(tiles)
RobotSendDisconnected ==
    /\ topology = "painting_robot"
    /\ host.pc = "sending"
    /\ ~ThreadAlive
    /\ chans' = [chans EXCEPT ![ToThread] = <<>>]
    /\ host' = Return("Ok")
    /\ UNCHANGED <<program, opcodes, index, base, status, error, received,
                   sent, last, steps, topology, amps>>

\* *color = Color::from(receiver_from_thread.recv()?)
RobotRecvColor ==
    /\ topology = "painting_robot"
    /\ host.pc = "recv"
    /\ chans[ToHost] # <<>>
    /\ chans' = [chans EXCEPT ![ToHost] = Tail(@)]
    /\ host' = [host EXCEPT
                  !.tiles = [@ EXCEPT ![host.position] =
                                ColorFrom(Head(chans[ToHost]))],
                  !.pc = "recv_turn",
                  !.log = Append(@, [op |-> "recv",
                                     value |-> Head(chans[ToHost]),
                                     position |-> host.position])]
    /\ status' = "Running"
    /\ UNCHANGED <<program, opcodes, index, base, error, received, sent,
                   last, steps, topology, amps>>

\* direction = direction + Turn::from(receiver_from_thread.recv()?), then
\* move_forward; Turn::from panics on a value other than 0 and 1
RobotRecvTurn ==
    /\ topology = "painting_robot"
    /\ host.pc = "recv_turn"
    /\ chans[ToHost] # <<>>
    /\ chans' = [chans EXCEPT ![ToHost] = Tail(@)]
    /\ LET int_dir == Head(chans[ToHost])
           direction == DirectionAdd(host.direction, int_dir)
           logged == Append(host.log, [op |-> "recv", value |-> int_dir,
                                       position |-> host.position])
       IN  IF int_dir \in {0, 1}
           THEN host' = [host EXCEPT
                           !.direction = direction,
                           !.position = move_forward(direction, @),
                           !.path = Append(@, move_forward(direction,
                                                           host.position)),
                           !.pc = "send",
                           !.log = logged]
           ELSE host' = [host EXCEPT !.pc = "returned", !.result = "Panic",
                                     !.log = logged]
    /\ status' = "Running"
    /\ UNCHANGED <<program, opcodes, index, base, error, received, sent,
                   last, steps, topology, amps>>

\* recv()? on a channel whose sender is dropped: the RecvError is returned
\* as MissingInput
RobotRecvDisconnected ==
    /\ topology = "painting_robot"
    /\ host.pc \in {"recv", "recv_turn"}
    /\ chans[ToHost] = <<>>
    /\ ~ThreadAlive
    /\ host' = Return("MissingInput")
    /\ UNCHANGED <<program, opcodes, index, base, status, error, received,
                   sent, last, steps, topology, chans, amps>>

NextRobot ==
    \/ RunStart
    \/ StepDecodeError
    \/ StepAdd
    \/ StepMultiply
    \/ StepJumpIf
    \/ StepJumpIfNot
    \/ StepLessThan
    \/ StepEquals
    \/ StepModifyBase
    \/ StepHalt
    \/ LoopExit
    \/ ThreadInputUnresolved
    \/ ThreadInput
    \/ ThreadInputDisconnected
    \/ ThreadOutputFail
    \/ ThreadOutput
    \/ RobotSend
    \/ RobotSendDisconnected
    \/ RobotRecvColor
    \/ RobotRecvTurn
    \/ RobotRecvDisconnected

SpecRobot == InitRobot /\ [][NextRobot]_vars

----------------------------------------------------------------------------

\* enum Instruction
HandheldCodes == {"NoOperation", "Accumulate", "Jump"}

HandheldInstruction(code, value) == [code |-> code, value |-> value]

\* the largest usize the model keeps: a wrapped index is above the length of
\* every vector, as it is with 64 bits
UsizeMax == 2147483647

\* State::default()
StateDefault ==
    [index |-> 0, accumulator |-> 0, exit_code |-> "None",
     already_executed |-> {}]

\* one iteration that counts the instruction it meets again before it stops
ExecuteStepAgain(instructions, state, build) ==
    IF state.index >= Len(instructions)
    THEN [state EXCEPT !.exit_code = "OutOfBounds"]
    ELSE LET instruction == instructions[state.index + 1]
             again == state.index \in state.already_executed
             marked == [state EXCEPT
                          !.already_executed = @ \cup {state.index},
                          !.exit_code = IF again THEN "InfiniteLoop"
                                        ELSE "None"]
         IN  CASE instruction.code = "NoOperation" ->
                    [marked EXCEPT !.index = @ + 1]
               [] instruction.code = "Accumulate" ->
                    [marked EXCEPT !.accumulator = @ + instruction.value,
                                   !.index = @ + 1]
               [] instruction.code = "Jump" ->
                    IF instruction.value > 0
                    THEN [marked EXCEPT !.index = @ + instruction.value]
                    ELSE IF -instruction.value <= state.index
                    THEN [marked EXCEPT !.index = @ + instruction.value]
                    ELSE IF build = "debug"
                    THEN [marked EXCEPT !.exit_code = "Panic"]
                    ELSE [marked EXCEPT
                            !.index = (@ + instruction.value) + UsizeMax + 1]

\* one iteration of the loop of execute.  `state.index -= ..` below zero
\* panics in a build with overflow checks and wraps in one without.
ExecuteStep(instructions, state, build) ==
    IF state.index >= Len(instructions)
    THEN [state EXCEPT !.exit_code = "OutOfBounds"]
    ELSE IF state.index \in state.already_executed
    THEN [state EXCEPT !.exit_code = "InfiniteLoop"]
    ELSE LET instruction == instructions[state.index + 1]
             marked == [state EXCEPT
                          !.already_executed = @ \cup {state.index}]
         IN  CASE instruction.code = "NoOperation" ->
                    [marked EXCEPT !.index = @ + 1]
               [] instruction.code = "Accumulate" ->
                    [marked EXCEPT !.accumulator = @ + instruction.value,
                                   !.index = @ + 1]
               [] instruction.code = "Jump" ->
                    IF instruction.value > 0
                    THEN [marked EXCEPT !.index = @ + instruction.value]
                    ELSE IF -instruction.value <= state.index
                    THEN [marked EXCEPT !.index = @ + instruction.value]
                    ELSE IF build = "debug"
                    THEN [marked EXCEPT !.exit_code = "Panic"]
                    ELSE [marked EXCEPT
                            !.index = (@ + instruction.value) + UsizeMax + 1]

\* the loop of execute, from a state to the state returned
RECURSIVE ExecuteLoop(_, _, _)
ExecuteLoop(instructions, state, build) ==
    IF state.exit_code # "None" THEN state
    ELSE ExecuteLoop(instructions, ExecuteStep(instructions, state, build),
                     build)

execute(instructions, build) == ExecuteLoop(instructions, StateDefault, build)

\* the program of the tests
HandheldExample ==
    <<HandheldInstruction("NoOperation", 0),
      HandheldInstruction("Accumulate", 1),
      HandheldInstruction("Jump", 4),
      HandheldInstruction("Accumulate", 3),
      HandheldInstruction("Jump", -3),
      HandheldInstruction("Accumulate", -99),
      HandheldInstruction("Accumulate", 1),
      HandheldInstruction("Jump", -4),
      HandheldInstruction("Accumulate", 6)>>

HandheldInstructions ==
    {HandheldInstruction(code, value) :
        code \in HandheldCodes, value \in -MaxValue..MaxValue}

HandheldPrograms ==
    {HandheldExample}
    \cup UNION {[1..n -> HandheldInstructions] : n \in 0..MaxInstructions}

\* the calls of tests::infinite_loop, of tests::fix_program and of main
HandheldCallers ==
    {<<"execute">>, <<"fix", "execute">>, <<"execute", "fix", "execute">>}

\* fix's `match instruction`
Swapped(instruction) ==
    IF instruction.code = "NoOperation"
    THEN HandheldInstruction("Jump", instruction.value)
    ELSE HandheldInstruction("NoOperation", instruction.value)

InitHandheld ==
    /\ topology = "handheld"
    /\ program = <<>>
    /\ opcodes = <<>>
    /\ index = 0
    /\ base = 0
    /\ status = "NoThread"
    /\ error = "None"
    /\ received = <<>>
    /\ sent = <<>>
    /\ last = NoInstruction
    /\ steps = 0
    /\ \E instructions \in HandheldPrograms, calls \in HandheldCallers,
          build \in {"debug", "release"} :
         host = [pc |-> Head(calls), todo |-> Tail(calls), build |-> build,
                 instructions |-> instructions, original |-> instructions,
                 state |-> StateDefault, trace |-> <<>>,
                 index |-> 0, done |-> FALSE, swapped |-> -1]
    /\ chans = <<>>
    /\ amps = <<>>

\* one iteration of the loop of execute; trace keeps the indexes of the
\* instructions executed, in order
HandheldExecute ==
    /\ topology = "handheld"
    /\ host.pc = "execute"
    /\ host.state.exit_code = "None"
    /\ LET state == ExecuteStep(host.instructions, host.state, host.build)
       IN  host' = [host EXCEPT
                      !.state = state,
                      !.trace = IF state.already_executed
                                     # host.state.already_executed
                                THEN Append(@, host.state.index) ELSE @,
                      !.pc = IF state.exit_code = "Panic" THEN "aborted"
                             ELSE @]
    /\ UNCHANGED <<program, opcodes, index, base, status, error, received,
                   sent, last, steps, topology, chans, amps>>

\* HandheldFix that does not put back the instruction of a failed attempt
HandheldFixNoBackup ==
    /\ topology = "handheld"
    /\ host.pc = "fix"
    /\ ~host.done
    /\ IF host.index >= Len(host.instructions)
       THEN host' = [host EXCEPT !.done = TRUE]
       ELSE LET instruction == host.instructions[host.index + 1]
                tried == [host.instructions EXCEPT
                            ![host.index + 1] =
                                IF instruction.code = "NoOperation"
                                THEN [code |-> "Jump",
                                      value |-> instruction.value]
                                ELSE [code |-> "NoOperation",
                                      value |-> instruction.value]]
                exit_code == execute(tried, host.build).exit_code
            IN  IF instruction.code = "Accumulate"
                THEN host' = [host EXCEPT !.index = @ + 1]
                ELSE IF exit_code = "Panic"
                THEN host' = [host EXCEPT !.instructions = tried,
                                          !.pc = "aborted"]
                ELSE IF exit_code = "OutOfBounds"
                THEN host' = [host EXCEPT !.instructions = tried,
                                          !.swapped = host.index,
                                          !.done = TRUE]
                ELSE host' = [host EXCEPT !.instructions = tried,
                                          !.index = @ + 1]
    /\ UNCHANGED <<program, opcodes, index, base, status, error, received,
                   sent, last, steps, topology, chans, amps>>

\* one iteration of the for loop of fix, or its end
HandheldFix ==
    /\ topology = "handheld"
    /\ host.pc = "fix"
    /\ ~host.done
    /\ IF host.index >= Len(host.instructions)
       THEN host' = [host EXCEPT !.done = TRUE]
       ELSE LET instruction == host.instructions[host.index + 1]
                tried == [host.instructions EXCEPT
                            ![host.index + 1] = Swapped(instruction)]
                exit_code == execute(tried, host.build).exit_code
            IN  IF instruction.code = "Accumulate"
                THEN host' = [host EXCEPT !.index = @ + 1]
                ELSE IF exit_code = "Panic"
                THEN host' = [host EXCEPT !.instructions = tried,
                                          !.pc = "aborted"]
                ELSE IF exit_code = "OutOfBounds"
                THEN host' = [host EXCEPT !.instructions = tried,
                                          !.swapped = host.index,
                                          !.done = TRUE]
                ELSE host' = [host EXCEPT !.index = @ + 1]
    /\ UNCHANGED <<program, opcodes, index, base, status, error, received,
                   sent, last, steps, topology, chans, amps>>

\* execute or fix has returned: the caller makes its next call, or ends
HandheldReturn ==
    /\ topology = "handheld"
    /\ \/ host.pc = "execute"
          /\ host.state.exit_code \in {"InfiniteLoop", "OutOfBounds"}
       \/ host.pc = "fix" /\ host.done
    /\ IF host.todo = <<>>
       THEN host' = [host EXCEPT !.pc = "returned"]
       ELSE host' = [host EXCEPT
                       !.pc = Head(host.todo),
                       !.todo = Tail(host.todo),
                       !.state = IF Head(host.todo) = "execute"
                                 THEN StateDefault ELSE @,
                       !.trace = IF Head(host.todo) = "execute"
                                 THEN <<>> ELSE @,
                       !.index = 0,
                       !.done = FALSE]
    /\ UNCHANGED <<program, opcodes, index, base, status, error, received,
                   sent, last, steps, topology, chans, amps>>

NextHandheld == HandheldExecute \/ HandheldFix \/ HandheldReturn

SpecHandheld == InitHandheld /\ [][NextHandheld]_vars

----------------------------------------------------------------------------
(* process_opcode of src/2019-12-05: the program runs in the calling       *)
(* thread, reads its input from the standard input and gathers its outputs *)
(* in output_codes.  The arms JumpIf, JumpIfNot, LessThan and Equals exist *)
(* only in a build with the feature test-jump.  The memory never grows.    *)

\* impl TryFrom<&str> for Mode of src/2019-12-05
Mode5TryFrom(code) ==
    CASE code = <<"0">> -> "Position"
      [] code = <<"1">> -> "Immediate"
      [] OTHER -> "InvalidMode"

Mode5At(intcode, i) ==
    LET g == StrGet(intcode, i, i + 1)
    IN Mode5TryFrom(IF g = None THEN <<"0">> ELSE g)

\* the match on instruction_code; jumps says that the build has the feature
\* test-jump
Arm5(code, jumps) ==
    CASE code = 1 -> [op |-> "Add", n |-> 3]
      [] code = 2 -> [op |-> "Multiply", n |-> 3]
      [] code = 3 -> [op |-> "Input", n |-> 1]
      [] code = 4 -> [op |-> "Output", n |-> 1]
      [] code = 5 /\ jumps -> [op |-> "JumpIf", n |-> 2]
      [] code = 6 /\ jumps -> [op |-> "JumpIfNot", n |-> 2]
      [] code = 7 /\ jumps -> [op |-> "LessThan", n |-> 3]
      [] code = 8 /\ jumps -> [op |-> "Equals", n |-> 3]
      [] code = 99 -> [op |-> "Halt", n |-> 0]
      [] OTHER -> [op |-> "Invalid", n |-> -1]

\* impl TryFrom<i64> for Instruction of src/2019-12-05
Instruction5TryFrom(intcode, jumps) ==
    LET str == to_string(intcode)
        length == Len(str)
        low == IF length < 2 THEN length ELSE 2
        instruction_str == StrGet(str, length - low, length)
        rest == Reverse(SubSeq(str, 1, length - Len(instruction_str)))
        instruction_code == ParseUsize(instruction_str)
        arm == Arm5(instruction_code, jumps)
        modes == [i \in 1..arm.n |-> Mode5At(rest, i - 1)]
    IN  IF instruction_code < 0 \/ arm.n < 0
        THEN [ok |-> FALSE, op |-> "Invalid", modes |-> <<>>,
              error |-> "InvalidInstruction"]
        ELSE IF \E i \in 1..arm.n : modes[i] = "InvalidMode"
        THEN [ok |-> FALSE, op |-> "Invalid", modes |-> <<>>,
              error |-> "InvalidMode"]
        ELSE [ok |-> TRUE, op |-> arm.op, modes |-> modes, error |-> "None"]

\* macro offset_from_mode! of src/2019-12-05; "Panic" is the out-of-bounds
\* panic of program[$index]
offset_from_mode5(m, i, mode) ==
    LET o == IF mode = "Immediate" THEN [ok |-> TRUE, offset |-> i]
             ELSE OffsetTryFrom(Cell(m, i))
    IN  IF mode # "Immediate" /\ i >= Len(m) THEN [res |-> "Panic", offset |-> 0]
        ELSE IF ~o.ok THEN [res |-> "InvalidIntOffset", offset |-> 0]
        ELSE IF o.offset < Len(m) THEN [res |-> "Ok", offset |-> o.offset]
        ELSE [res |-> "OutOfBound", offset |-> 0]

\* the parameters of one arm, each followed by index += 1
RECURSIVE Operands5(_, _, _)
Operands5(m, i, modes) ==
    IF modes = <<>> THEN [res |-> "Ok", index |-> i, offs |-> <<>>]
    ELSE LET r == offset_from_mode5(m, i, Head(modes))
         IN  IF r.res # "Ok" THEN [res |-> r.res, index |-> i, offs |-> <<>>]
             ELSE LET t == Operands5(m, i + 1, Tail(modes))
                  IN  [t EXCEPT !.offs = <<r.offset>> \o @]

\* the value the arms Add, Multiply, LessThan and Equals store
Result5(op, a, b) ==
    CASE op = "Add" -> a + b
      [] op = "Multiply" -> a * b
      [] op = "LessThan" -> IF a < b THEN 1 ELSE 0
      [] op = "Equals" -> IF a = b THEN 1 ELSE 0

Outcome5(res, m, i) == [res |-> res, program |-> m, index |-> i]

\* the arms Add, Multiply, LessThan and Equals
Store5(m, i, ins) ==
    LET r == Operands5(m, i, ins.modes)
    IN  IF r.res # "Ok" THEN Outcome5(r.res, m, r.index)
        ELSE Outcome5("Ok",
                      [m EXCEPT ![r.offs[3] + 1] =
                          Result5(ins.op, Cell(m, r.offs[1]),
                                  Cell(m, r.offs[2]))],
                      r.index)

\* the arms JumpIf and JumpIfNot
Jump5(m, i, ins) ==
    LET c == offset_from_mode5(m, i, ins.modes[1])
    IN  IF c.res # "Ok" THEN Outcome5(c.res, m, i)
        ELSE IF (ins.op = "JumpIf") = (Cell(m, c.offset) # 0)
        THEN LET p == offset_from_mode5(m, i + 1, ins.modes[2])
             IN  IF p.res # "Ok" THEN Outcome5(p.res, m, i + 1)
                 ELSE LET target == OffsetTryFrom(Cell(m, p.offset))
                      IN  IF target.ok
                          THEN Outcome5("Ok", m, target.offset)
                          ELSE Outcome5("InvalidIntOffset", m, i + 1)
        ELSE Outcome5("Ok", m, i + 2)

\* programs of the tests of src/2019-12-05
Day5Test1 == <<1101, 9, 10, 3, 4, 3>>
Day5Test2 == <<1101, 9, 10, 3, 4, 5>>
Day5TestJump == <<1101, 9, 10, 3, 1008, 3, 3, 3, 4, 3>>

\* programs that end at the end of the memory, that jump to or beyond it,
\* that loop, that halt, that read, and that fail
Day5Programs ==
    {Day5Test1, Day5Test2, Day5TestJump, <<>>}
    \cup {<<104, 7>>, <<3, 0, 4, 0>>, <<3, 0, 4, 0, 99>>, <<1102, 2, 3, 0>>,
          <<1105, 1, 3>>, <<1105, 1, 9>>, <<1106, 0, 3, 99>>, <<5, 0, 2>>,
          <<1105, 1, 0>>, <<1105, 0, 0>>, <<1106, 1, 0>>, <<1105, 1, -1>>,
          <<104, 7, 1105, 1, 6, 99>>, <<104, 7, 1106, 0, 5>>,
          <<1107, 1, 2, 0>>, <<1108, 1, 1, 0, 4, 0>>, <<99, 4, 0>>,
          <<104, 7, 99>>, <<4, 5>>, <<4, -1>>, <<1>>, <<101, 1>>, <<204, 0>>,
          <<9, 0>>, <<-5>>, <<0>>, <<3>>, <<4, 0, 1101, 1, 1, 7>>}

InitProcess5 ==
    /\ topology = "process_opcode"
    /\ program = <<>>
    /\ opcodes = <<>>
    /\ index = 0
    /\ base = 0
    /\ status = "NoThread"
    /\ error = "None"
    /\ received = <<>>
    /\ sent = <<>>
    /\ last = NoInstruction
    /\ steps = 0
    /\ \E p \in Day5Programs, jumps \in BOOLEAN :
         host = [pc |-> "called", jumps |-> jumps, program |-> p,
                 index |-> 0, output_codes |-> <<>>, result |-> "None",
                 steps |-> 0]
    /\ chans = <<>>
    /\ amps = <<>>

\* if program.is_empty() { return Err(MyError::ProgramEmpty) }, then the
\* entry into the loop
Process5Start ==
    /\ topology = "process_opcode"
    /\ host.pc = "called"
    /\ IF host.program = <<>>
       THEN host' = [host EXCEPT !.pc = "returned", !.result = "ProgramEmpty"]
       ELSE host' = [host EXCEPT !.pc = "loop"]
    /\ UNCHANGED <<program, opcodes, index, base, status, error, received,
                   sent, last, steps, topology, chans, amps>>

\* the loop condition holds and the cell at index is to be decoded
Process5Fetching ==
    /\ topology = "process_opcode"
    /\ host.pc = "loop"
    /\ host.index < Len(host.program)
    /\ host.steps < MaxSteps

Process5Fetched ==
    Instruction5TryFrom(Cell(host.program, host.index), host.jumps)

\* what becomes of process_opcode after an arm: the loop goes on, the
\* thread panics, or `?` returns the error
Process5Finish(res, m, i, out) ==
    /\ host' = [host EXCEPT
                  !.program = m,
                  !.index = i,
                  !.output_codes = out,
                  !.pc = CASE res = "Ok" -> "loop"
                           [] res = "Panic" -> "aborted"
                           [] OTHER -> "returned",
                  !.result = IF res \in {"Ok", "Panic"} THEN @ ELSE res,
                  !.steps = @ + 1]
    /\ UNCHANGED <<program, opcodes, index, base, status, error, received,
                   sent, last, steps, topology, chans, amps>>

\* let instruction = Instruction::try_from(program[index])? fails
Process5DecodeError ==
    /\ Process5Fetching
    /\ ~Process5Fetched.ok
    /\ Process5Finish(Process5Fetched.error, host.program, host.index,
                      host.output_codes)

Process5Add ==
    /\ Process5Fetching
    /\ Process5Fetched.op = "Add"
    /\ LET o == Store5(host.program, host.index + 1, Process5Fetched)
       IN  Process5Finish(o.res, o.program, o.index, host.output_codes)

Process5Multiply ==
    /\ Process5Fetching
    /\ Process5Fetched.op = "Multiply"
    /\ LET o == Store5(host.program, host.index + 1, Process5Fetched)
       IN  Process5Finish(o.res, o.program, o.index, host.output_codes)

Process5LessThan ==
    /\ Process5Fetching
    /\ Process5Fetched.op = "LessThan"
    /\ LET o == Store5(host.program, host.index + 1, Process5Fetched)
       IN  Process5Finish(o.res, o.program, o.index, host.output_codes)

Process5Equals ==
    /\ Process5Fetching
    /\ Process5Fetched.op = "Equals"
    /\ LET o == Store5(host.program, host.index + 1, Process5Fetched)
       IN  Process5Finish(o.res, o.program, o.index, host.output_codes)

\* the arm Input: the line read from the standard input parses to an i64
\* or `buffer.trim().parse()?` fails
Process5Input ==
    /\ Process5Fetching
    /\ Process5Fetched.op = "Input"
    /\ LET m == host.program
           r == offset_from_mode5(m, host.index + 1, Process5Fetched.modes[1])
       IN  IF r.res # "Ok"
           THEN Process5Finish(r.res, m, host.index + 1, host.output_codes)
           ELSE \E input \in InputEvents :
                  IF input.ok
                  THEN Process5Finish("Ok",
                           [m EXCEPT ![r.offset + 1] = input.value],
                           host.index + 2, host.output_codes)
                  ELSE Process5Finish("InvalidStringOffset", m,
                                      host.index + 2, host.output_codes)

\* the arm Output
Process5Output ==
    /\ Process5Fetching
    /\ Process5Fetched.op = "Output"
    /\ LET m == host.program
           r == offset_from_mode5(m, host.index + 1, Process5Fetched.modes[1])
       IN  IF r.res # "Ok"
           THEN Process5Finish(r.res, m, host.index + 1, host.output_codes)
           ELSE Process5Finish("Ok", m, host.index + 2,
                               Append(host.output_codes, Cell(m, r.offset)))

Process5JumpIf ==
    /\ Process5Fetching
    /\ Process5Fetched.op = "JumpIf"
    /\ LET o == Jump5(host.program, host.index + 1, Process5Fetched)
       IN  Process5Finish(o.res, o.program, o.index, host.output_codes)

Process5JumpIfNot ==
    /\ Process5Fetching
    /\ Process5Fetched.op = "JumpIfNot"
    /\ LET o == Jump5(host.program, host.index + 1, Process5Fetched)
       IN  Process5Finish(o.res, o.program, o.index, host.output_codes)

\* Halt: break, then Ok(output_codes)
Process5Halt ==
    /\ Process5Fetching
    /\ Process5Fetched.op = "Halt"
    /\ host' = [host EXCEPT !.pc = "returned", !.result = "Ok",
                            !.index = @ + 1, !.steps = @ + 1]
    /\ UNCHANGED <<program, opcodes, index, base, status, error, received,
                   sent, last, steps, topology, chans, amps>>

\* Process5LoopExit that reports a program that ran off its end as an error
Process5LoopExitError ==
    /\ topology = "process_opcode"
    /\ host.pc = "loop"
    /\ host.index >= Len(host.program)
    /\ host' = [host EXCEPT !.pc = "returned", !.result = "OutOfBound"]
    /\ UNCHANGED <<program, opcodes, index, base, status, error, received,
                   sent, last, steps, topology, chans, amps>>

\* the loop condition index < program.len() fails, then Ok(output_codes)
Process5LoopExit ==
    /\ topology = "process_opcode"
    /\ host.pc = "loop"
    /\ host.index >= Len(host.program)
    /\ host' = [host EXCEPT !.pc = "returned", !.result = "Ok"]
    /\ UNCHANGED <<program, opcodes, index, base, status, error, received,
                   sent, last, steps, topology, chans, amps>>

NextProcess5 ==
    \/ Process5Start
    \/ Process5DecodeError
    \/ Process5Add
    \/ Process5Multiply
    \/ Process5Input
    \/ Process5Output
    \/ Process5JumpIf
    \/ Process5JumpIfNot
    \/ Process5LessThan
    \/ Process5Equals
    \/ Process5Halt
    \/ Process5LoopExit

SpecProcess5 == InitProcess5 /\ [][NextProcess5]_vars

\* Program::run of src/intcode and process_opcode of src/2019-12-05, each
\* started on its own programs
InitLoops == Init \/ InitProcess5

NextLoops == Next \/ NextProcess5

SpecLoops == InitLoops /\ [][NextLoops]_vars

----------------------------------------------------------------------------
(* process_opcode of src/2019/02_1202-program-alarm: the first interpreter *)
(* of the repository, over Vec<usize>.  It knows the codes 1, 2 and 99,    *)
(* steps over any other cell, and panics on an address beyond the memory.  *)
(* It is run here next to Program::run on the same program.                *)

\* binary_operator that stores its result in the parameter slot itself
binary_operator_in_slot(m, offset, operator) ==
    LET ensure_offset(o) == o < Len(m)
        offset_a == Cell(m, offset + 1)
        offset_b == Cell(m, offset + 2)
        output_offset == Cell(m, offset + 3)
    IN  IF offset + 3 >= Len(m) THEN [res |-> "Panic", program |-> m]
        ELSE IF ~(/\ ensure_offset(offset_a)
                  /\ ensure_offset(offset_b)
                  /\ ensure_offset(output_offset))
        THEN [res |-> "Panic", program |-> m]
        ELSE [res |-> "Ok",
              program |-> [m EXCEPT ![offset + 3 + 1] =
                             IF operator = "Add"
                             THEN Cell(m, offset_a) + Cell(m, offset_b)
                             ELSE Cell(m, offset_a) * Cell(m, offset_b)]]

\* fn binary_operator: "Panic" is the out-of-bounds panic of
\* program[offset + k] or the assert of ensure_offset
binary_operator(m, offset, operator) ==
    LET ensure_offset(o) == o < Len(m)
        offset_a == Cell(m, offset + 1)
        offset_b == Cell(m, offset + 2)
        output_offset == Cell(m, offset + 3)
    IN  IF offset + 3 >= Len(m) THEN [res |-> "Panic", program |-> m]
        ELSE IF ~(/\ ensure_offset(offset_a)
                  /\ ensure_offset(offset_b)
                  /\ ensure_offset(output_offset))
        THEN [res |-> "Panic", program |-> m]
        ELSE [res |-> "Ok",
              program |-> [m EXCEPT ![output_offset + 1] =
                             IF operator = "Add"
                             THEN Cell(m, offset_a) + Cell(m, offset_b)
                             ELSE Cell(m, offset_a) * Cell(m, offset_b)]]

\* programs of the test of src/2019/02_1202-program-alarm
Day2Tests ==
    {Day2Example, <<1, 0, 0, 0, 99>>, <<2, 3, 0, 3, 99>>,
     <<2, 4, 4, 5, 99, 0>>, <<1, 1, 1, 4, 99, 5, 6, 0, 99>>}

\* one or two instructions with the codes 1 and 2 followed by 99, every
\* operand an address of an instruction cell or of the 99
Day2Programs ==
    Day2Tests
    \cup {<<o, a, b, c, 99>> :
            o \in {1, 2}, a \in 0..4, b \in 0..4, c \in 0..4}
    \cup {<<o1, a, b, c, o2, d, e, f, 99>> :
            o1 \in {1, 2}, a \in {0, 4, 8}, b \in {0, 4, 8}, c \in {0, 4, 8},
            o2 \in {1, 2}, d \in {0, 4, 8}, e \in {0, 4, 8}, f \in {0, 4, 8}}

\* process_opcode(program) is called, and a Program is made of the same
\* cells; trace keeps the cells the match of process_opcode has seen
InitDay2 ==
    /\ topology = "process_opcode2"
    /\ program \in Day2Programs
    /\ opcodes = program
    /\ index = 0
    /\ base = 0
    /\ status = "Created"
    /\ error = "None"
    /\ received = <<>>
    /\ sent = <<>>
    /\ last = NoInstruction
    /\ steps = 0
    /\ host = [pc |-> "loop", program |-> program, index |-> 0,
               trace |-> <<>>]
    /\ chans = <<>>
    /\ amps = <<>>

\* the loop condition index < program.len() && program[index] != 99 holds
Day2Matching ==
    /\ topology = "process_opcode2"
    /\ host.pc = "loop"
    /\ host.index < Len(host.program)
    /\ Cell(host.program, host.index) # 99

\* what becomes of process_opcode after binary_operator: index += 4, or
\* the panic
Day2Finish(o) ==
    /\ host' = [host EXCEPT
                  !.program = o.program,
                  !.index = IF o.res = "Ok" THEN @ + 4 ELSE @,
                  !.pc = IF o.res = "Ok" THEN "loop" ELSE "aborted",
                  !.trace = Append(@, Cell(host.program, host.index))]
    /\ UNCHANGED <<program, opcodes, index, base, status, error, received,
                   sent, last, steps, topology, chans, amps>>

\* the arm 1
Day2Add ==
    /\ Day2Matching
    /\ Cell(host.program, host.index) = 1
    /\ Day2Finish(binary_operator(host.program, host.index, "Add"))

\* the arm 2
Day2Multiply ==
    /\ Day2Matching
    /\ Cell(host.program, host.index) = 2
    /\ Day2Finish(binary_operator(host.program, host.index, "Multiply"))

\* the arm _
Day2Other ==
    /\ Day2Matching
    /\ Cell(host.program, host.index) \notin {1, 2}
    /\ host' = [host EXCEPT !.index = @ + 1,
                            !.trace = Append(@, Cell(host.program,
                                                     host.index))]
    /\ UNCHANGED <<program, opcodes, index, base, status, error, received,
                   sent, last, steps, topology, chans, amps>>

\* the loop condition fails: process_opcode returns program
Day2Return ==
    /\ topology = "process_opcode2"
    /\ host.pc = "loop"
    /\ ~(/\ host.index < Len(host.program)
         /\ Cell(host.program, host.index) # 99)
    /\ host' = [host EXCEPT !.pc = "returned"]
    /\ UNCHANGED <<program, opcodes, index, base, status, error, received,
                   sent, last, steps, topology, chans, amps>>

NextDay2 == Next \/ Day2Add \/ Day2Multiply \/ Day2Other \/ Day2Return

SpecDay2 == InitDay2 /\ [][NextDay2]_vars

----------------------------------------------------------------------------
(* Every topology: a host function, its channels and its threads *)


\* The host function runs on the main thread, which the operating system
\* keeps scheduling: while the host has a step to take it takes one.
HostStep ==
    HostSend \/ HostSendDisconnected \/ HostRecv \/ HostRecvDisconnected

SpecSingleShotLive == SpecSingleShot /\ WF_vars(HostStep)

InitTopologies == InitSingleShot \/ InitThrusters

NextTopologies == NextSingleShot \/ NextThrusters

SpecTopologies == InitTopologies /\ [][NextTopologies]_vars

----------------------------------------------------------------------------
(* Vocabulary of the properties: the latest instruction, read off the      *)
(* memory as it was before that instruction (last.pre)                     *)

ValidCodes == (1..9) \cup {99}

Abs(v) == IF v < 0 THEN -v ELSE v

Max(S) == CHOOSE x \in S : \A y \in S : y <= x

\* the latest step executed an instruction, and it did not fail
Executed(ops) == last.op \in ops /\ status \in {"Running", "Ok"}

\* the cell the latest step decoded
LastCell == Cell(last.pre, last.at)

\* value of address a before the latest instruction; a cell that did not
\* exist then counts as 0
PreCell(a) == IF a < Len(last.pre) THEN Cell(last.pre, a) ELSE 0

\* slot of parameter k of the latest instruction
Slot(k) == last.at + k

\* address parameter k of the latest instruction refers to
ParamAddr(k) ==
    CASE last.modes[k] = "Immediate" -> Slot(k)
      [] last.modes[k] = "Position" -> PreCell(Slot(k))
      [] last.modes[k] = "Relative" -> PreCell(Slot(k)) + last.base0

ParamValue(k) == PreCell(ParamAddr(k))

ModeOfDigit(d) ==
    CASE d = 0 -> "Position" [] d = 1 -> "Immediate" [] d = 2 -> "Relative"
      [] OTHER -> "InvalidMode"

\* decimal digit of v with weight 10^e
RECURSIVE DigitOf(_, _)
DigitOf(v, e) == IF e = 0 THEN Abs(v) % 10 ELSE DigitOf(Abs(v) \div 10, e - 1)

ParamCount(code) ==
    CASE code \in {1, 2, 7, 8} -> 3 [] code \in {5, 6} -> 2
      [] code \in {3, 4, 9} -> 1 [] OTHER -> 0

\* every cell that existed before the latest instruction kept its value,
\* except possibly the cells of `written`; every cell added holds 0
FrameExcept(written) ==
    /\ Len(opcodes) >= Len(last.pre)
    /\ \A a \in 0..(Len(opcodes) - 1) :
         a \notin written => Cell(opcodes, a) = PreCell(a)

----------------------------------------------------------------------------
(* C1: run returns Ok(()) only after decoding opcode 99 (Halt); a run that *)
(* ends without Halt ends with an Error.                                   *)
(* As stated this fails: run also returns Ok(()) when the loop condition   *)
(* index < len fails.                                                      *)
C1_OkOnlyAfterHalt == status = "Ok" => last.op = "Halt"

\* C1 amended: run returns Ok(()) only after decoding Halt at the program
\* counter or when the program counter is at or beyond the end of memory at
\* the start of a loop iteration; when it returns an error instead, the
\* error is one of the variants of Error.
C1_OkAfterHaltOrEnd ==
    /\ status = "Ok" =>
         \/ last.op = "Halt" /\ Abs(LastCell) % 100 = 99
         \/ last.op \notin {"Halt", "None", "Invalid"} /\ index >= Len(opcodes)
    /\ status = "Err" <=> error # "None"
    /\ error \in {"None", "ProgramEmpty", "InvalidInstruction", "InvalidMode",
                  "InvalidIntOffset", "MissingInput", "MissingOutput"}

C1_Witness == status = "Ok" /\ last.op = "Add" /\ index >= Len(opcodes)

----------------------------------------------------------------------------
(* C2: a non-negative cell at the program counter whose value mod 100 is   *)
(* not one of 1..9, 99 makes run return InvalidInstruction at once: no     *)
(* memory cell changes, no channel operation is performed, no instruction  *)
(* is executed for it.                                                     *)
C2_InvalidOpcodeFails ==
    [][(Fetching /\ Cell(opcodes, index) >= 0
                 /\ Cell(opcodes, index) % 100 \notin ValidCodes)
       => /\ status' = "Err"
          /\ error' = "InvalidInstruction"
          /\ last'.op = "Invalid"
          /\ opcodes' = opcodes
          /\ base' = base
          /\ received' = received
          /\ sent' = sent]_vars

C2_Witness ==
    /\ error = "InvalidInstruction"
    /\ LastCell >= 0
    /\ LastCell % 100 \notin ValidCodes
    /\ last.at > 0

----------------------------------------------------------------------------
(* C3: the mode of parameter i is the decimal digit of weight 10^(i+1) of  *)
(* the cell value (hundreds, thousands, ten-thousands), for as many        *)
(* parameters as the opcode takes; 0 is Position, 1 Immediate, 2 Relative, *)
(* an absent digit is Position; 1002 is Multiply(Position, Immediate,      *)
(* Position).                                                              *)
C3_ModeDigits ==
    /\ last.op \notin {"None", "Invalid"} =>
         /\ Len(last.modes) = ParamCount(Abs(LastCell) % 100)
         /\ \A i \in 1..Len(last.modes) :
              last.modes[i] = ModeOfDigit(DigitOf(LastCell, i + 1))
    /\ InstructionTryFrom(1002) =
         [ok |-> TRUE, op |-> "Multiply",
          modes |-> <<"Position", "Immediate", "Position">>, error |-> "None"]

C3_Witness ==
    /\ last.op = "Equals"
    /\ last.modes = <<"Relative", "Position", "Immediate">>
    /\ LastCell = 10208

----------------------------------------------------------------------------
(* C4: offset_from_mode resolves a parameter at slot s to s itself         *)
(* (Immediate), to memory[s] (Position), or to memory[s] + relative_base   *)
(* (Relative).                                                             *)
C4_Resolution ==
    last.op \notin {"None", "Invalid"} =>
        \A k \in 1..Len(last.offs) : last.offs[k] = ParamAddr(k)

C4_Witness ==
    /\ Executed({"Output"})
    /\ last.modes = <<"Relative">>
    /\ last.base0 = 1
    /\ last.offs = <<PreCell(Slot(1)) + 1>>

----------------------------------------------------------------------------
(* C5: a parameter that resolves to an address A at or beyond the end of   *)
(* memory extends memory to exactly A + 1 cells before the instruction     *)
(* reads or writes; added cells hold 0, existing cells keep their value;   *)
(* reading a never-written address yields 0 and does not fail.             *)
(* [109,2000,109,19,204,-34,99] outputs 0 and halts,                       *)
(* [109,42,1001,1,0,42,204,0,99] outputs 42.                               *)

\* the cell the latest instruction stored into, if it stored
Written ==
    IF Executed({"Add", "Multiply", "LessThan", "Equals"}) THEN {ParamAddr(3)}
    ELSE IF Executed({"Input"}) THEN {ParamAddr(1)}
    ELSE {}

C5_MemoryGrowth ==
    /\ last.op \notin {"None", "Invalid"} =>
         /\ Len(opcodes) =
              Max({Len(last.pre)}
                  \cup {ParamAddr(k) + 1 : k \in 1..Len(last.offs)})
         /\ FrameExcept(Written)
    /\ (Executed({"Output"}) /\ ParamAddr(1) >= Len(last.pre)) =>
         sent[Len(sent)] = 0
    /\ (program = Day9Large /\ last.op = "Halt") => sent = <<0>>
    /\ (program = Day9Grow /\ last.op = "Halt") => sent = <<42>>

C5_Witness ==
    /\ Executed({"Output"})
    /\ ParamAddr(1) >= Len(last.pre)
    /\ Len(opcodes) = ParamAddr(1) + 1
    /\ sent # <<>>

----------------------------------------------------------------------------
(* C6: every memory index read or written exists at the time of the        *)
(* access, the parameter slots of an instruction at the end of memory      *)
(* included, so run never aborts with an out-of-bounds access.             *)
(* The code indexes self.opcodes[index] for a Position or Relative         *)
(* parameter without checking that the slot exists.                        *)
C6_NoOutOfBounds == status # "Panic"

----------------------------------------------------------------------------
(* C7: a negative Position parameter, or a negative Relative parameter     *)
(* plus relative base, fails with the invalid-offset error at once; memory *)
(* is not grown and no cell is written by the failing instruction.         *)
(* As stated this fails: a parameter resolved before the failing one may   *)
(* already have grown memory.                                              *)

\* parameter k of the latest instruction designates a negative address
NegativeParam(k) == last.modes[k] # "Immediate" /\ ParamAddr(k) < 0

\* the latest instruction ended in a failed parameter resolution
ResolutionFailed ==
    error = "InvalidIntOffset" /\ Len(last.offs) < Len(last.modes)

\* the condition of the latest jump told it to jump
JumpTaken ==
    IF last.op = "JumpIf" THEN ParamValue(1) # 0 ELSE ParamValue(1) = 0

C7_NoGrowthOnInvalidOffset == ResolutionFailed => opcodes = last.pre

\* C7 amended: a negative Position parameter, or a negative Relative
\* parameter plus relative base, fails with the invalid-offset error at
\* once; the failing instruction writes no cell and the failing resolution
\* grows nothing, but the parameters of the same instruction resolved
\* before it may have extended memory with zero cells.
C7_InvalidOffset ==
    last.op \notin {"None", "Invalid"} =>
        LET k == Len(last.offs) + 1
        IN  /\ \A j \in 1..Len(last.offs) : ~NegativeParam(j)
            /\ ResolutionFailed => NegativeParam(k)
            /\ ( /\ k <= Len(last.modes)
                 /\ NegativeParam(k)
                 /\ ~(k = 2 /\ last.op \in {"JumpIf", "JumpIfNot"}
                            /\ ~JumpTaken) )
               => /\ status = "Err"
                  /\ error = "InvalidIntOffset"
                  /\ base = last.base0
                  /\ FrameExcept({})
                  /\ Len(opcodes) =
                       Max({Len(last.pre)}
                           \cup {ParamAddr(j) + 1 : j \in 1..(k - 1)})
                  /\ (k = 1 => opcodes = last.pre)

C7_Witness == ResolutionFailed /\ Len(opcodes) > Len(last.pre)

----------------------------------------------------------------------------
(* C8: Add and Multiply store the sum and the product of the values at the *)
(* two resolved operand addresses at the resolved destination address, all *)
(* three addresses being resolved before an operand is read;               *)
(* [1,9,10,3,2,3,11,0,99,30,40,50] ends as                                 *)
(* [3500,9,10,70,2,3,11,0,99,30,40,50].                                    *)
C8_AddMultiply ==
    /\ Executed({"Add"}) =>
         Cell(opcodes, ParamAddr(3)) = ParamValue(1) + ParamValue(2)
    /\ Executed({"Multiply"}) =>
         Cell(opcodes, ParamAddr(3)) = ParamValue(1) * ParamValue(2)
    /\ (program = Day2Example /\ last.op = "Halt") =>
         opcodes = <<3500, 9, 10, 70, 2, 3, 11, 0, 99, 30, 40, 50>>

C8_Witness ==
    /\ program = Day2Example
    /\ last.op = "Halt"
    /\ Cell(opcodes, 0) = 3500

----------------------------------------------------------------------------
(* C9: JumpIfTrue sets the program counter to memory[target] exactly when  *)
(* memory[cond] # 0, JumpIfFalse exactly when memory[cond] = 0; otherwise  *)
(* the program counter ends at the opcode address + 3.  Neither changes a  *)
(* memory cell value or the relative base.                                 *)
C9_Jumps ==
    last.op \in {"JumpIf", "JumpIfNot"} =>
        /\ FrameExcept({})
        /\ base = last.base0
        /\ Executed({"JumpIf", "JumpIfNot"}) =>
             /\ JumpTaken => index = ParamValue(2)
             /\ ~JumpTaken => index = last.at + 3

C9_Witness ==
    /\ Executed({"JumpIfNot"})
    /\ ParamValue(1) = 0
    /\ index = ParamValue(2)
    /\ index # last.at + 3

----------------------------------------------------------------------------
(* C10: LessThan writes 1 to the resolved destination if memory[a] <       *)
(* memory[b] and 0 otherwise, Equals 1 if memory[a] = memory[b] and 0      *)
(* otherwise; [103,0,1101,9,10,3,1008,3,3,3,4,3,99] outputs 0.             *)
C10_Compare ==
    /\ Executed({"LessThan"}) =>
         Cell(opcodes, ParamAddr(3)) =
             IF ParamValue(1) < ParamValue(2) THEN 1 ELSE 0
    /\ Executed({"Equals"}) =>
         Cell(opcodes, ParamAddr(3)) =
             IF ParamValue(1) = ParamValue(2) THEN 1 ELSE 0
    /\ (program = Day5Example /\ last.op = "Halt") => sent = <<0>>

C10_Witness ==
    /\ Executed({"LessThan"})
    /\ ParamValue(1) = ParamValue(2)
    /\ Cell(opcodes, ParamAddr(3)) = 0

----------------------------------------------------------------------------
(* C11: ModifyBase sets the relative base to its previous value plus the   *)
(* value at the resolved address and execution continues with the next     *)
(* instruction, for every signed value, those that make the sum negative   *)
(* included; the relative base starts at 0 and no other instruction        *)
(* changes it.                                                             *)
(* The code keeps the base in a usize and converts the sum with try_into,  *)
(* so a negative sum ends run with InvalidIntOffset.                       *)
C11_AdjustRelativeBase ==
    /\ last.op = "None" => base = 0
    /\ last.op \notin {"None", "ModifyBase"} => base = last.base0
    /\ (last.op = "ModifyBase" /\ Len(last.offs) = 1) =>
         /\ status \in {"Running", "Ok"}
         /\ base = last.base0 + ParamValue(1)
         /\ index = last.at + 2

----------------------------------------------------------------------------
(* C12: Input receives exactly one value from the input channel and stores *)
(* it at the resolved destination; when the channel is disconnected with   *)
(* no value pending, run returns MissingInput, the destination cell is not *)
(* written and nothing further is executed.                                *)
C12_Input ==
    [][/\ error # "MissingInput"
       /\ (Fetching /\ Fetched.op = "Input") =>
            /\ sent' = sent
            /\ base' = base
            /\ \/ /\ status' = "Running"
                  /\ Len(received') = Len(received) + 1
                  /\ SubSeq(received', 1, Len(received)) = received
                  /\ Cell(opcodes', ParamAddr(1)') = received'[Len(received')]
                  /\ FrameExcept({ParamAddr(1)})'
               \/ /\ status' = "Err"
                  /\ error' = "MissingInput"
                  /\ received' = received
                  /\ FrameExcept({})'
               \/ /\ status' \in {"Err", "Panic"}
                  /\ error' \in {"InvalidIntOffset", "None"}
                  /\ last'.offs = <<>>
                  /\ received' = received
                  /\ opcodes' = opcodes]_vars

C12_Witness ==
    /\ error = "MissingInput"
    /\ last.op = "Input"
    /\ PreCell(ParamAddr(1)) # 0
    /\ Cell(opcodes, ParamAddr(1)) = PreCell(ParamAddr(1))

----------------------------------------------------------------------------
(* C13: Output sends exactly one value, the value at the resolved source   *)
(* address at that moment, and leaves every memory cell value unchanged;   *)
(* when the receiver is disconnected, run returns MissingOutput and        *)
(* executes nothing further.                                               *)
C13_Output ==
    [][/\ error # "MissingOutput"
       /\ (Fetching /\ Fetched.op = "Output") =>
            /\ received' = received
            /\ base' = base
            /\ FrameExcept({})'
            /\ \/ /\ status' = "Running"
                  /\ sent' = Append(sent, ParamValue(1)')
               \/ /\ status' = "Err"
                  /\ error' = "MissingOutput"
                  /\ Len(last'.offs) = 1
                  /\ sent' = sent
               \/ /\ status' \in {"Err", "Panic"}
                  /\ error' \in {"InvalidIntOffset", "None"}
                  /\ last'.offs = <<>>
                  /\ sent' = sent]_vars

C13_Witness ==
    /\ Executed({"Output"})
    /\ sent # <<>>
    /\ sent[Len(sent)] = ParamValue(1)
    /\ ParamValue(1) # 0
    /\ opcodes = last.pre

----------------------------------------------------------------------------
(* C14: after every successfully executed instruction other than a taken   *)
(* jump and Halt the program counter is the opcode address plus 1 plus the *)
(* number of parameters: +4 for Add, Multiply, LessThan, Equals, +2 for    *)
(* Input, Output, ModifyBase, +3 for a jump not taken; parameter i of the  *)
(* instruction at p is read from slot p + i.                               *)
C14_ProgramCounter ==
    /\ Executed({"Add", "Multiply", "LessThan", "Equals"}) =>
         index = last.at + 4
    /\ Executed({"Input", "Output", "ModifyBase"}) => index = last.at + 2
    /\ (Executed({"JumpIf", "JumpIfNot"}) /\ ~JumpTaken) =>
         index = last.at + 3
    /\ Executed({"Add", "Multiply", "LessThan", "Equals", "Input", "Output",
                 "ModifyBase"})
         => index = last.at + 1 + ParamCount(Abs(LastCell) % 100)
    /\ \A i \in 1..Len(last.offs) :
         /\ last.modes[i] = "Immediate" => last.offs[i] = last.at + i
         /\ last.modes[i] = "Position" =>
              last.offs[i] = PreCell(last.at + i)
         /\ last.modes[i] = "Relative" =>
              last.offs[i] = PreCell(last.at + i) + last.base0

C14_Witness ==
    /\ Executed({"JumpIf"})
    /\ ~JumpTaken
    /\ last.at = 2
    /\ index = 5

----------------------------------------------------------------------------
(* C15: for every cell with a valid opcode, if the mode digit of one of    *)
(* the parameters the opcode takes is one of 3..9, decoding fails with     *)
(* InvalidMode and run returns that error without executing the            *)
(* instruction.                                                            *)
C15_InvalidMode ==
    [][(/\ Fetching
        /\ Abs(Cell(opcodes, index)) % 100 \in ValidCodes
        /\ \E i \in 1..ParamCount(Abs(Cell(opcodes, index)) % 100) :
             DigitOf(Cell(opcodes, index), i + 1) \in 3..9)
       => /\ status' = "Err"
          /\ error' = "InvalidMode"
          /\ last'.op = "Invalid"
          /\ opcodes' = opcodes
          /\ index' = index
          /\ base' = base
          /\ received' = received
          /\ sent' = sent]_vars

C15_Witness ==
    /\ error = "InvalidMode"
    /\ LastCell = 90108
    /\ opcodes = last.pre

----------------------------------------------------------------------------
(* C16: run on a program with zero cells returns ProgramEmpty before       *)
(* decoding anything: no channel operation is performed and memory stays   *)
(* empty.                                                                  *)
C16_ProgramEmpty ==
    /\ (program = <<>> /\ status # "Created") =>
         /\ status = "Err"
         /\ error = "ProgramEmpty"
         /\ opcodes = <<>>
         /\ received = <<>>
         /\ sent = <<>>
         /\ last = NoInstruction
         /\ steps = 0
    /\ error = "ProgramEmpty" => program = <<>>

C16_Witness == program = <<>> /\ status = "Err" /\ error = "ProgramEmpty"

----------------------------------------------------------------------------
(* C17: among the cells that existed before an instruction only the single *)
(* resolved destination of Add, Multiply, Input, LessThan or Equals may    *)
(* change; Output, the jumps, ModifyBase and Halt change no cell value,    *)
(* memory is only extended with zeros; an instruction whose three modes    *)
(* are all Immediate changes no cell other than its own third parameter    *)
(* slot.                                                                   *)
C17_Frame ==
    [][Fetching =>
         LET changed ==
                 {a \in 0..(Len(opcodes) - 1) :
                      Cell(opcodes', a) # Cell(opcodes, a)}
             filled ==
                 {a \in Len(opcodes)..(Len(opcodes') - 1) :
                      Cell(opcodes', a) # 0}
             dest ==
                 IF status' # "Running" THEN {}
                 ELSE IF last'.op \in {"Add", "Multiply", "LessThan", "Equals"}
                 THEN {ParamAddr(3)'}
                 ELSE IF last'.op = "Input" THEN {ParamAddr(1)'}
                 ELSE {}
         IN  /\ Len(opcodes') >= Len(opcodes)
             /\ changed \subseteq dest
             /\ filled \subseteq dest
             /\ Fetched.modes = <<"Immediate", "Immediate", "Immediate">>
                  => (changed \cup filled) \subseteq {index + 3}]_vars

C17_Witness ==
    /\ Executed({"Multiply"})
    /\ last.modes = <<"Immediate", "Immediate", "Immediate">>
    /\ Cell(opcodes, last.at + 3) # PreCell(last.at + 3)
    /\ \A a \in 0..(Len(opcodes) - 1) :
         a # last.at + 3 => Cell(opcodes, a) = PreCell(a)

----------------------------------------------------------------------------
(* C18: [109,1,204,-1,1001,100,1,100,1008,100,16,101,1006,101,0,99], run   *)
(* with an output consumer that is always ready, sends exactly its own 16  *)
(* cells in order and then halts: the relative base grows by 1 on every    *)
(* pass and each Output reads the cell at relative base - 1.               *)
C18_Quine ==
    program = Day9Quine =>
        /\ Len(sent) <= Len(Day9Quine)
        /\ sent = SubSeq(Day9Quine, 1, Len(sent))
        /\ received = <<>>
        /\ status # "Panic"
        /\ error \in {"None", "MissingOutput"}
        /\ Executed({"ModifyBase"}) => base = last.base0 + 1
        /\ Executed({"Output"}) =>
             /\ last.offs = <<last.base0 - 1>>
             /\ last.base0 = Len(sent)
        /\ status = "Ok" => last.op = "Halt"
        /\ last.op = "Halt" => sent = Day9Quine /\ status = "Ok"

C18_Witness ==
    /\ program = Day9Quine
    /\ status = "Ok"
    /\ last.op = "Halt"
    /\ sent = Day9Quine
    /\ base = 16

----------------------------------------------------------------------------
(* C19: every channel that connects an engine to its peer is a zero-buffer *)
(* rendezvous channel in every topology, the amplifier pipeline and        *)
(* feedback loop included: a send completes only together with a matching  *)
(* receive, so in no reachable state is a sent value pending in a channel  *)
(* while its sender has already continued.                                 *)
(* As stated this fails: optimize_thrusters makes its channels with        *)
(* mpsc::channel(), whose send returns at once.                            *)

\* the party that sends into channel c is blocked in that send
SenderWaits(c) ==
    /\ topology \in SingleShot
    /\ IF c = ToThread THEN host.pc = "sending" ELSE status = "Sending"

----------------------------------------------------------------------------
(* C20: the sequence of values a consumer receives from a channel is       *)
(* exactly the sequence the upstream engine's Output instructions sent, in *)
(* execution order, nothing lost, duplicated or reordered; run_diagnostics *)
(* therefore returns the engine's complete output sequence in order:       *)
(* [103,0,104,7,104,42,99] with input 1 returns [7,42].                    *)
(* As stated this fails in optimize_thrusters: the channel between thread  *)
(* k and thread k + 1 also carries the phase setting the host sent.        *)

Values(msgs) == [i \in 1..Len(msgs) |-> msgs[i].value]

SentBy(k, msgs) == Values(SelectSeq(msgs, LAMBDA msg : msg.by = k))

\* what the consumer of channel k of optimize_thrusters has received
Consumed(k) == IF k < NumAmps THEN amps[k + 1].received ELSE host.received

C20_ExactlyUpstreamOutputs ==
    /\ topology \in SingleShot => sent = host.diagnostics \o chans[ToHost]
    /\ topology \in Thrusters =>
         \A k \in Amps : Values(Consumed(k) \o chans[k]) = amps[k].sent

\* C20 amended: a channel delivers the values in the order they were sent
\* into it, nothing lost, duplicated or reordered.  In the single-shot
\* topologies the host receives exactly the sequence the engine's Output
\* instructions sent, and run_diagnostics returns the engine's complete
\* output sequence in order ([103,0,104,7,104,42,99] with input 1 returns
\* [7,42]).  In optimize_thrusters the consumer of the channel after thread
\* k receives the outputs of thread k in execution order, and with them,
\* when it is thread k + 1, the one phase setting the host sent into the
\* same channel.
C20_ChannelOrder ==
    /\ topology \in SingleShot =>
         /\ sent = host.diagnostics \o chans[ToHost]
         /\ (topology = "run_diagnostics" /\ host.result = "Ok") =>
              /\ host.diagnostics = sent
              /\ ~ThreadAlive
         /\ (program = Day5Outputs /\ host.arg = 1 /\ host.pc = "returned"
             /\ topology = "run_diagnostics") =>
              host.result = "Ok" /\ host.diagnostics = <<7, 42>>
    /\ topology \in Thrusters =>
         \A k \in Amps :
             /\ SentBy(k, Consumed(k) \o chans[k]) = amps[k].sent
             /\ \A i \in 1..Len(Consumed(k) \o chans[k]) :
                  (Consumed(k) \o chans[k])[i].by \in {0, k}
             /\ SentBy(0, Consumed(k) \o chans[k]) \in
                  {<<>>, <<host.phase_settings[(k % NumAmps) + 1]>>}
             /\ k = NumAmps => SentBy(0, Consumed(k) \o chans[k]) = <<>>

C20_Witness ==
    /\ topology = "run_diagnostics"
    /\ program = Day5Outputs
    /\ host.arg = 1
    /\ host.result = "Ok"
    /\ host.diagnostics = <<7, 42>>
    /\ sent = <<7, 42>>

----------------------------------------------------------------------------
\* C21: in the single-shot topology, once the Program's run has ended
\* (after Halt, after an Error or after a panic) its endpoints are dropped:
\* the host function eventually returns, and a host that is in its receive
\* when the run has ended gets the disconnect (run_diagnostics returns
\* Ok(diagnostics), boost_keycode the MissingInput error) instead of
\* blocking forever.
C21_Disconnect ==
    /\ (topology \in SingleShot /\ ~ThreadAlive) ~> (host.pc = "returned")
    /\ (topology \in SingleShot /\ ~ThreadAlive /\ host.pc = "recv")
         ~> (/\ host.pc = "returned"
             /\ host.result = IF topology = "run_diagnostics" THEN "Ok"
                              ELSE "MissingInput")

\* the run ended with an Error after an output and run_diagnostics returned
C21_Witness ==
    /\ topology = "run_diagnostics"
    /\ status = "Err"
    /\ host.diagnostics # <<>>
    /\ host.pc = "returned"
    /\ host.result = "Ok"


----------------------------------------------------------------------------
\* thread k has left process_opcode
AmpDone(k) == amps[k].status \in {"Ok", "Err", "Panic"}

\* the values the host sent into channel 0, in order
HostSent == SentBy(0, amps[1].received \o chans[0])

\* C22: in the feedback loop (feature loopback), for every interleaving of
\* the five threads and the host, the host forwards the outputs of the last
\* thread to the first thread's input in order; once all threads have
\* halted its loop has terminated (the host is not left in a receive of
\* the loop that nothing can complete); the value it reports for the
\* permutation is the last output of the last thread; and the result for
\* the program of the test is 139629729.
C22_FeedbackLoop ==
    Loopback =>
      /\ host.pc \in {"forward", "recv_loop", "compare"} =>
           /\ Len(HostSent) - 2 <= Len(host.received)
           /\ \A i \in 3..Len(HostSent) :
                HostSent[i] = host.received[i - 2].value
      /\ ~(/\ host.pc = "recv_loop"
           /\ chans[NumAmps] = <<>>
           /\ \A k \in Amps : AmpDone(k))
      /\ host.pc = "compare" =>
           /\ amps[NumAmps].sent # <<>>
           /\ host.output = amps[NumAmps].sent[Len(amps[NumAmps].sent)]
      /\ (program = Day7Feedback /\ host.pc = "returned") =>
           /\ host.result = "Ok"
           /\ host.max_thrusting = 139629729


----------------------------------------------------------------------------
\* C23: in the pipeline (optimize_thrusters without loopback), whatever the
\* interleaving, the first value thread k receives is its own phase
\* setting and the second is the first output of thread k - 1 (the seed 0
\* for the first thread); the value the host reads for the permutation is
\* the first output of the last thread.
C23_Pipeline ==
    topology = "optimize_thrusters" =>
      /\ \A k \in Amps :
           /\ Len(amps[k].received) >= 1 =>
                amps[k].received[1] = Message(0, host.phase_settings[k])
           /\ Len(amps[k].received) >= 2 =>
                amps[k].received[2] =
                    IF k = 1 THEN Message(0, 0)
                    ELSE Message(k - 1, amps[k - 1].sent[1])
      /\ host.pc = "compare" =>
           /\ amps[NumAmps].sent # <<>>
           /\ host.output = amps[NumAmps].sent[1]


----------------------------------------------------------------------------
\* C24: unwinding in the amplifier topology: when a thread of the chain has
\* terminated, by an error or by halting, and left its output channel
\* empty, the party that receives from that channel (the next thread, or
\* the host for the last thread) finds the channel disconnected, so that
\* its receive fails instead of blocking forever.  A channel is
\* disconnected when no Sender of it is left.
C24_Unwinding ==
    topology \in Thrusters =>
      /\ \A k \in 2..NumAmps :
           (AmpDone(k - 1) /\ AmpAlive(k) /\ chans[k - 1] = <<>>)
               => ~SendersAlive(k - 1)
      /\ (/\ AmpDone(NumAmps)
          /\ host.pc \in {"recv", "recv_loop"}
          /\ chans[NumAmps] = <<>>) => ~SendersAlive(NumAmps)


----------------------------------------------------------------------------
\* C25: the single-shot topology never swallows an error of the Program:
\* when run ended with an Error (or a panic), run_diagnostics does not
\* return Ok(diagnostics) as it does after a Halt, so that the caller can
\* tell a failed run from one that halted.
C25_ErrorNotSwallowed ==
    (topology = "run_diagnostics" /\ host.pc = "returned"
        /\ host.result = "Ok") => status = "Ok"


----------------------------------------------------------------------------
\* C26: optimize_thrusters returns the maximum of the final signals of the
\* permutations it went through, for every program, whatever the sign of
\* the signals; it returns 43210 for the first program of the test.
C26_Maximum ==
    (topology \in Thrusters /\ host.pc = "returned" /\ host.result = "Ok") =>
      /\ host.max_thrusting =
             Max({host.signals[i] : i \in 1..Len(host.signals)})
      /\ (program = Day7Thrusters /\ ~Loopback) => host.max_thrusting = 43210


----------------------------------------------------------------------------
\* the orderings of a vector: the vectors of the same length that hold
\* every cell of it as often as it does
Count(s, v) == Cardinality({i \in 1..Len(s) : s[i] = v})

Orderings(s) ==
    {c \in [1..Len(s) -> {s[i] : i \in 1..Len(s)}] :
        \A i \in 1..Len(s) : Count(c, s[i]) = Count(s, s[i])}

RECURSIVE Factorial(_)
Factorial(n) == IF n = 0 THEN 1 ELSE n * Factorial(n - 1)

PairwiseDistinct(s) == \A i, j \in 1..Len(s) : i # j => s[i] # s[j]

\* C27: for n >= 1 pairwise distinct settings phase_settings_combinations
\* returns exactly the orderings of its input: n! vectors, each a
\* permutation of the input of length n, and every permutation of the
\* input among them.
C27_Combinations ==
    (/\ topology = "phase_settings_combinations"
     /\ host.pc = "returned"
     /\ Len(host.settings) >= 1
     /\ PairwiseDistinct(host.settings)) =>
        /\ host.combinations = Orderings(host.settings)
        /\ Cardinality(host.combinations) = Factorial(Len(host.settings))
        /\ \A c \in host.combinations :
             /\ Len(c) = Len(host.settings)
             /\ PairwiseDistinct(c)
             /\ \A i \in 1..Len(c) :
                  \E j \in 1..Len(c) : c[i] = host.settings[j]

C27_Witness ==
    /\ topology = "phase_settings_combinations"
    /\ host.pc = "returned"
    /\ host.settings = <<0, 1, 2>>
    /\ Cardinality(host.combinations) = 6
    /\ <<2, 0, 1>> \in host.combinations


----------------------------------------------------------------------------
\* the sum of the Accumulate instructions among those at the indexes t
RECURSIVE Accumulated(_, _)
Accumulated(instructions, t) ==
    IF t = <<>> THEN 0
    ELSE LET instruction == instructions[Head(t) + 1]
         IN  (IF instruction.code = "Accumulate" THEN instruction.value
              ELSE 0) + Accumulated(instructions, Tail(t))

\* C28: execute of the handheld console never executes the instruction at
\* an index twice; it stops just before an instruction would run a second
\* time, with exit code InfiniteLoop and the accumulator as accumulated up
\* to that point (5 for the program of the test); and it returns
\* OutOfBounds as soon as the index is greater than or equal to the number
\* of instructions.
C28_Execute ==
    (topology = "handheld" /\ host.pc = "execute") =>
      /\ PairwiseDistinct(host.trace)
      /\ host.state.accumulator = Accumulated(host.instructions, host.trace)
      /\ host.state.already_executed =
             {host.trace[i] : i \in 1..Len(host.trace)}
      /\ \A i \in 1..Len(host.trace) : host.trace[i] < Len(host.instructions)
      /\ host.state.exit_code = "InfiniteLoop" =>
           /\ host.state.index < Len(host.instructions)
           /\ host.state.index \in host.state.already_executed
      /\ host.state.exit_code = "OutOfBounds" =>
           host.state.index >= Len(host.instructions)
      /\ (/\ host.instructions = HandheldExample
          /\ host.state.exit_code # "None") =>
           /\ host.state.exit_code = "InfiniteLoop"
           /\ host.state.accumulator = 5

\* execute stops an endless loop of the program: it has come back to an
\* instruction after a jump backwards
C28_Witness ==
    /\ topology = "handheld"
    /\ host.pc = "execute"
    /\ host.state.exit_code = "InfiniteLoop"
    /\ Len(host.trace) = 3
    /\ host.state.index = 1
    /\ host.state.accumulator = 1


----------------------------------------------------------------------------
\* the instructions with the one at index j (from 0) changed from nop to
\* jmp or from jmp to nop, its argument kept
SwapAt(instructions, j) ==
    [instructions EXCEPT
       ![j + 1] = [code |-> IF @.code = "Jump" THEN "NoOperation" ELSE "Jump",
                   value |-> @.value]]

\* the indexes at which one swap makes execute end with OutOfBounds
Repairs(instructions, build) ==
    {j \in 0..(Len(instructions) - 1) :
        /\ instructions[j + 1].code # "Accumulate"
        /\ execute(SwapAt(instructions, j), build).exit_code = "OutOfBounds"}

Min(S) == CHOOSE x \in S : \A y \in S : x <= y

\* C29: fix changes at most one instruction, and only by swapping one nop
\* with jmp or one jmp with nop, keeping its argument; it applies the swap
\* at the lowest index for which execute then ends with OutOfBounds, and
\* leaves the program as it was when no single swap achieves this.  For
\* the program of the test, execute after fix ends with accumulator 8.
C29_Fix ==
    /\ (topology = "handheld" /\ host.pc = "fix" /\ host.done) =>
         LET repairs == Repairs(host.original, host.build)
         IN  IF repairs = {}
             THEN host.instructions = host.original /\ host.swapped = -1
             ELSE /\ host.swapped = Min(repairs)
                  /\ host.instructions = SwapAt(host.original, host.swapped)
                  /\ host.original[host.swapped + 1].code # "Accumulate"
                  /\ execute(host.instructions, host.build).exit_code
                         = "OutOfBounds"
    /\ (/\ topology = "handheld"
        /\ host.original = HandheldExample
        /\ host.swapped # -1
        /\ host.pc = "execute"
        /\ host.state.exit_code # "None") =>
         /\ host.state.exit_code = "OutOfBounds"
         /\ host.state.accumulator = 8

\* the first swap tried did not help and was put back, the second did
C29_Witness ==
    /\ topology = "handheld"
    /\ host.pc = "fix"
    /\ host.done
    /\ host.swapped = 1
    /\ host.original[1].code = "NoOperation"
    /\ host.instructions = SwapAt(host.original, 1)


----------------------------------------------------------------------------
\* the receives of a colour that precede event i of the log and were made
\* at the position of event i
PaintsBefore(log, i) ==
    {j \in 1..(i - 1) : j % 3 = 2 /\ log[j].position = log[i].position}

\* the colour last painted at the position of event i, 0 if none was
LastPainted(log, i) ==
    IF PaintsBefore(log, i) = {} THEN 0
    ELSE IF log[Max(PaintsBefore(log, i))].value = 1 THEN 1 ELSE 0

\* the host has returned from a send that the Program did not receive
SendFailed ==
    /\ host.pc = "returned"
    /\ Len(host.log) % 3 = 1
    /\ Len(received) = (Len(host.log) - 1) \div 3

----------------------------------------------------------------------------
\* C31: whenever the program counter is at or beyond the end of the memory
\* at the head of the loop, process_opcode of src/2019-12-05 and
\* Program::run both return Ok in their next step: the outputs produced so
\* far are what is reported, no cell is decoded, no instruction is
\* executed, the memory keeps its length and its contents, and no Halt is
\* needed.
C31_LoopExit ==
    [][/\ (/\ topology = "process_opcode"
           /\ host.pc = "loop"
           /\ host.index >= Len(host.program))
          => /\ host'.pc = "returned"
             /\ host'.result = "Ok"
             /\ host'.output_codes = host.output_codes
             /\ host'.program = host.program
             /\ host'.index = host.index
             /\ host'.steps = host.steps
       /\ (/\ topology = "none"
           /\ status = "Running"
           /\ index >= Len(opcodes))
          => /\ status' = "Ok"
             /\ error' = "None"
             /\ sent' = sent
             /\ opcodes' = opcodes
             /\ index' = index
             /\ last' = last
             /\ steps' = steps]_vars

\* process_opcode has returned Ok([19]) on [1101,9,10,3,4,3]: its Output
\* ended at the end of the memory and no Halt was executed
C31_Witness ==
    /\ topology = "process_opcode"
    /\ host.pc = "returned"
    /\ host.result = "Ok"
    /\ host.program = <<1101, 9, 10, 19, 4, 3>>
    /\ host.output_codes = <<19>>
    /\ host.index = Len(host.program)


----------------------------------------------------------------------------
\* programs of Input and Output instructions followed by Halt: each halts
\* when its inputs are supplied on demand and its outputs are taken
StraightLine ==
    {Flatten(bs) \o Stop :
        bs \in UNION {[1..n -> {In, Out7, Out42}] : n \in 0..(MaxBlocks - 1)}}

\* host and thread are each blocked in a send that only the other can
\* release, and no step of either is possible
BothBlocked ==
    /\ host.pc = "sending"
    /\ status = "Sending"
    /\ ~ENABLED NextSingleShot

\* C32: in the single-shot topologies, on a program that halts when its
\* input is supplied on demand and its outputs are taken, the host and the
\* thread are never both blocked for good.
C32_DeadlockFree ==
    (topology \in SingleShot /\ program \in StraightLine) => ~BothBlocked


----------------------------------------------------------------------------
\* C33: a negative cell never decodes to an instruction: the step that
\* decodes it fails with InvalidInstruction or InvalidMode.
C33_NegativeCellFails ==
    (last.op # "None" /\ LastCell < 0)
        => /\ last.op = "Invalid"
           /\ status = "Err"
           /\ error \in {"InvalidInstruction", "InvalidMode"}


----------------------------------------------------------------------------
\* the instruction a valid code stands for
OpOfCode(code) ==
    CASE code = 1 -> "Add" [] code = 2 -> "Multiply" [] code = 3 -> "Input"
      [] code = 4 -> "Output" [] code = 5 -> "JumpIf"
      [] code = 6 -> "JumpIfNot" [] code = 7 -> "LessThan"
      [] code = 8 -> "Equals" [] code = 9 -> "ModifyBase"
      [] code = 99 -> "Halt"

\* C34: the decoder examines only the mode digits of the parameters the
\* opcode takes: a non-negative cell with a valid code whose digits at
\* those positions are modes decodes to that instruction with those modes,
\* whatever digits stand further left; 9003 is Input(Position), 30104 is
\* Output(Immediate), 1111101 is Add(Immediate, Immediate, Immediate), 199
\* and 9999 are Halt.
C34_OnlyOwnModeDigits ==
    [][(/\ Fetching
        /\ Cell(opcodes, index) >= 0
        /\ Cell(opcodes, index) % 100 \in ValidCodes
        /\ \A i \in 1..ParamCount(Cell(opcodes, index) % 100) :
             DigitOf(Cell(opcodes, index), i + 1) \in 0..2)
       => /\ last'.op = OpOfCode(Cell(opcodes, index) % 100)
          /\ last'.at = index
          /\ last'.modes =
               [i \in 1..ParamCount(Cell(opcodes, index) % 100) |->
                  ModeOfDigit(DigitOf(Cell(opcodes, index), i + 1))]
          /\ error' \notin {"InvalidMode", "InvalidInstruction"}]_vars

\* 1111101, with four digits to the left of its three mode digits, was
\* decoded as Add(Immediate, Immediate, Immediate)
C34_Witness ==
    /\ last.op = "Add"
    /\ LastCell = 1111101
    /\ last.modes = <<"Immediate", "Immediate", "Immediate">>
    /\ error \notin {"InvalidMode", "InvalidInstruction"}


----------------------------------------------------------------------------
\* C35: the program counter is never negative.  A jump that is taken and
\* whose target value is negative does not assign it to the program
\* counter, which stays at the slot of the target parameter: run returns
\* the invalid-offset error, and every cell keeps its value.
C35_ProgramCounter ==
    /\ index >= 0
    /\ ( /\ last.op \in {"JumpIf", "JumpIfNot"}
         /\ Len(last.offs) = 2
         /\ PreCell(last.offs[2]) < 0 )
       => /\ JumpTaken
          /\ status = "Err"
          /\ error = "InvalidIntOffset"
          /\ index = Slot(2)
          /\ base = last.base0
          /\ FrameExcept({})

\* JumpIfNot on a zero condition with the target value -1
C35_Witness ==
    /\ last.op = "JumpIfNot"
    /\ Len(last.offs) = 2
    /\ PreCell(last.offs[2]) = -1
    /\ error = "InvalidIntOffset"
    /\ index = Slot(2)


----------------------------------------------------------------------------
\* C36: a jump whose condition tells it not to jump steps over its target
\* parameter without resolving it: the run goes on past the target slot
\* whatever the slot holds, no cell changes, and the memory has grown by
\* what the condition parameter reached and no further.
C36_UntakenJump ==
    ( /\ last.op \in {"JumpIf", "JumpIfNot"}
      /\ Len(last.offs) >= 1
      /\ ~JumpTaken )
    => /\ status \in {"Running", "Ok"}
       /\ error = "None"
       /\ index = last.at + 3
       /\ base = last.base0
       /\ Len(last.offs) = 1
       /\ FrameExcept({})
       /\ Len(opcodes) = Max({Len(last.pre), ParamAddr(1) + 1})

\* JumpIf on a zero condition whose target parameter is the Position
\* address -1
C36_Witness ==
    /\ last.op = "JumpIf"
    /\ Len(last.offs) >= 1
    /\ ~JumpTaken
    /\ NegativeParam(2)
    /\ status = "Running"
    /\ index = last.at + 3

----------------------------------------------------------------------------
\* both interpreters have ended their run
BothEnded ==
    /\ topology = "process_opcode2"
    /\ host.pc # "loop"
    /\ status \notin {"Created", "Running"}

\* every cell the match of process_opcode has seen was the code 1 or 2
OnlyDay2Codes == \A i \in 1..Len(host.trace) : host.trace[i] \in {1, 2}

----------------------------------------------------------------------------
\* C38: execute of the handheld console terminates on every program: it
\* never aborts, it executes at most as many instructions as the program
\* has, and the exit code of the state it returns is InfiniteLoop or
\* OutOfBounds.
C38_Terminates ==
    topology = "handheld" =>
      /\ host.pc # "aborted"
      /\ host.state.exit_code \in {"None", "InfiniteLoop", "OutOfBounds"}
      /\ Len(host.trace) <= Len(host.instructions)
      /\ host.pc = "returned" =>
           host.state.exit_code \in {"InfiniteLoop", "OutOfBounds"}

====
